---- MODULE Spec2Model ----
(***************************************************************************)
(* State-machine model of the l1x-forge contract tooling:                  *)
(*   crates/l1x-cli/src/contract_install.rs   (vm-install-contract)        *)
(*   crates/l1x-cli/src/contract_sub_txn.rs   (vm-sub-txn)                 *)
(*   crates/l1x-common/src/toolkit_config.rs  (contract address registry)  *)
(* Strings that the code inspects character by character (addresses, hex   *)
(* payloads) are sequences of one-character strings.                       *)
(***************************************************************************)
EXTENDS Integers, Sequences, FiniteSets, TLC

VARIABLES
    file,        \* config-contract-address-registry.yaml on disk
    chain_nonce, \* the owner account's nonce on the node
    proc,        \* per invocation of the CLI: position and locals
    reg_call,    \* last direct call of update_toolkit_contract_address_registry
    norm,        \* a string under clean_string / clean_address_string
    sign_call,   \* a transaction under get_submit_txn_req
    new_call     \* the file system around a call of new_contract_project

vars == <<file, chain_nonce, proc, reg_call, norm, sign_call, new_call>>

(***************************************************************************)
(* Bounds of the model.                                                    *)
(***************************************************************************)
MaxNonce == 2
MaxEvents == 2
MaxUpserts == 3
MaxHexLen == 3
MaxRaceCalls == 2

(***************************************************************************)
(* Option<T> and Result<String, String>.                                   *)
(***************************************************************************)
None == [some |-> FALSE, v |-> <<>>]
Some(x) == [some |-> TRUE, v |-> x]
unwrap_or_default(o) == IF o.some THEN o.v ELSE <<>>
unwrap_or(o, d) == IF o.some THEN o.v ELSE d

Ok(x) == [ok |-> TRUE, v |-> x]
Err == [ok |-> FALSE, v |-> <<>>]

(***************************************************************************)
(* Characters and the string operations the code applies to addresses.     *)
(***************************************************************************)
DQ == "\""
SP == " "
OX == <<"0", "x">>
HexDigits == {"0", "1", "2", "a", "b"}

RECURSIVE trim_start_matches(_, _)
trim_start_matches(s, c) ==
    IF s # <<>> /\ Head(s) = c THEN trim_start_matches(Tail(s), c) ELSE s

RECURSIVE trim_end_matches(_, _)
trim_end_matches(s, c) ==
    IF s # <<>> /\ s[Len(s)] = c
    THEN trim_end_matches(SubSeq(s, 1, Len(s) - 1), c)
    ELSE s

trim_matches(s, c) == trim_end_matches(trim_start_matches(s, c), c)

trim(s) == trim_matches(s, SP)

strip_prefix(s, pre) ==
    IF Len(s) >= Len(pre) /\ SubSeq(s, 1, Len(pre)) = pre
    THEN Some(SubSeq(s, Len(pre) + 1, Len(s)))
    ELSE None

\* A plausible slip: the 0x prefix is left in place.
clean_address_string_NoStrip(address_to_clean) ==
    trim_matches(trim(address_to_clean), DQ)

clean_address_string(address_to_clean) ==
    LET trimmed_address == trim_matches(trim(address_to_clean), DQ)
    IN  unwrap_or(strip_prefix(trimmed_address, OX), trimmed_address)

\* A plausible slip: the prefix is stripped before the quotes are.
clean_string_PrefixFirst(address_to_clean) ==
    LET trimmed_address == trim(address_to_clean)
    IN  trim_matches(unwrap_or(strip_prefix(trimmed_address, OX), trimmed_address), DQ)

clean_string(address_to_clean) ==
    LET trimmed_address == trim_matches(trim(address_to_clean), DQ)
    IN  unwrap_or(strip_prefix(trimmed_address, OX), trimmed_address)

\* format!("\"0x{}\"", address)
format_quoted_0x(address) == <<DQ>> \o OX \o address \o <<DQ>>

\* hex::decode accepts an even number of hex digits and nothing else.
hex_parse_ok(s) == Len(s) % 2 = 0 /\ \A i \in 1..Len(s) : s[i] \in HexDigits

\* hex::encode: two lower-case digits for each byte
HexChars ==
    <<"0", "1", "2", "3", "4", "5", "6", "7", "8", "9", "a", "b", "c", "d", "e", "f">>
RECURSIVE hex_encode(_)
hex_encode(bytes) ==
    IF bytes = <<>> THEN <<>>
    ELSE <<HexChars[(Head(bytes) \div 16) + 1], HexChars[(Head(bytes) % 16) + 1]>>
         \o hex_encode(Tail(bytes))

(***************************************************************************)
(* serde_json values of an event: Value::to_string of event_data["address"]*)
(* is the JSON text of the field, "null" when the field is absent.         *)
(***************************************************************************)
JNull == <<"n", "u", "l", "l">>
json_to_string(field) == IF field.some THEN <<DQ>> \o field.v \o <<DQ>> ELSE JNull

(***************************************************************************)
(* Small input sets.                                                       *)
(***************************************************************************)
Artifacts == {"ft", "nft"}
ContractIds == {"c1", "c2"}
A1 == <<"a", "1">>
B2 == <<"b", "2">>
\* contract_address of a SubmitTransactionResponse: absent, bare hex, or hex
\* with a 0x prefix
RespAddrs == {None, Some(A1), Some(OX \o B2)}
\* an event: valid JSON or not, with an optional string field "address"
Events ==
    {[valid |-> FALSE, address |-> None],
     [valid |-> TRUE, address |-> None],
     [valid |-> TRUE, address |-> Some(OX \o B2)],
     [valid |-> TRUE, address |-> Some(A1)]}
\* the events after the first: not JSON, or JSON with another address
LaterEvents ==
    {[valid |-> FALSE, address |-> None],
     [valid |-> TRUE, address |-> Some(OX \o <<"0", "2">>)]}
RECURSIVE EventListsOfLen(_)
EventListsOfLen(n) ==
    IF n = 0 THEN {<<>>}
    ELSE IF n = 1 THEN {<<e>> : e \in Events}
    ELSE {Append(s, e) : s \in EventListsOfLen(n - 1), e \in LaterEvents}
EventLists == UNION {EventListsOfLen(n) : n \in 0..MaxEvents}

(***************************************************************************)
(* The registry: L1XVMContractAddressRegistry and its file.                *)
(***************************************************************************)
EmptyMap == [x \in {} |-> 0]
EmptyRegistry == [l1x_vm |-> EmptyMap, l1x_evm |-> EmptyMap]
MissingFile == [st |-> "missing", l1x_vm |-> EmptyMap, l1x_evm |-> EmptyMap]
\* a registry file that is there and is not the YAML of a registry
CorruptFile == [st |-> "corrupt", l1x_vm |-> EmptyMap, l1x_evm |-> EmptyMap]
FileOf(config) == [st |-> "ok", l1x_vm |-> config.l1x_vm, l1x_evm |-> config.l1x_evm]

\* A plausible slip: a key that is already there keeps its value.
insert_KeepsOld(m, k, v) ==
    [x \in (DOMAIN m) \cup {k} |-> IF x \in DOMAIN m THEN m[x] ELSE v]

insert(m, k, v) == [x \in (DOMAIN m) \cup {k} |-> IF x = k THEN v ELSE m[x]]

\* load_contract_address_registry: an error when the file is not there
load_contract_address_registry(f) ==
    IF f.st = "ok" THEN Ok([l1x_vm |-> f.l1x_vm, l1x_evm |-> f.l1x_evm]) ELSE Err

\* A plausible slip: the stored string is returned as it is.
get_toolkit_ebpf_contract_address_for_Raw(f, artifact_id, contract_id) ==
    LET reg == load_contract_address_registry(f)
    IN  IF ~reg.ok THEN Err
        ELSE IF artifact_id \notin DOMAIN reg.v.l1x_vm THEN Err
        ELSE LET contract_info == reg.v.l1x_vm[artifact_id]
             IN  IF contract_id.some
                 THEN IF contract_id.v \in DOMAIN contract_info.instance
                      THEN Ok(contract_info.instance[contract_id.v].inst_address)
                      ELSE Err
                 ELSE Ok(contract_info.deploy_address)

get_toolkit_ebpf_contract_address_for(f, artifact_id, contract_id) ==
    LET reg == load_contract_address_registry(f)
    IN  IF ~reg.ok THEN Err
        ELSE IF artifact_id \notin DOMAIN reg.v.l1x_vm THEN Err
        ELSE LET contract_info == reg.v.l1x_vm[artifact_id]
             IN  IF contract_id.some
                 THEN IF contract_id.v \in DOMAIN contract_info.instance
                      THEN Ok(clean_address_string(
                                  contract_info.instance[contract_id.v].inst_address))
                      ELSE Err
                 ELSE Ok(clean_address_string(contract_info.deploy_address))

\* A plausible slip: an artifact missing from l1x_evm is looked up in l1x_vm.
get_toolkit_evm_contract_address_for_AnyTable(f, artifact_id, contract_id) ==
    LET reg == load_contract_address_registry(f)
    IN  IF ~reg.ok THEN Err
        ELSE IF artifact_id \in DOMAIN reg.v.l1x_evm
        THEN Ok(clean_address_string(reg.v.l1x_evm[artifact_id].deploy_address))
        ELSE IF artifact_id \in DOMAIN reg.v.l1x_vm
        THEN Ok(clean_address_string(reg.v.l1x_vm[artifact_id].deploy_address))
        ELSE Err

get_toolkit_evm_contract_address_for(f, artifact_id, contract_id) ==
    LET reg == load_contract_address_registry(f)
    IN  IF ~reg.ok THEN Err
        ELSE IF artifact_id \notin DOMAIN reg.v.l1x_evm THEN Err
        ELSE Ok(clean_address_string(reg.v.l1x_evm[artifact_id].deploy_address))

\* L1XVMContractAddressUpdateType
L1XEBPF_DEPLOY(artifact_id, response_hash, response_address) ==
    [type |-> "L1XEBPF_DEPLOY", artifact_id |-> artifact_id, contract_id |-> "",
     response_hash |-> response_hash, response_address |-> response_address]
L1XEBPF_INIT(artifact_id, contract_id, response_hash, response_address) ==
    [type |-> "L1XEBPF_INIT", artifact_id |-> artifact_id, contract_id |-> contract_id,
     response_hash |-> response_hash, response_address |-> response_address]
L1XEVM_DEPLOY(artifact_id, response_hash, response_address) ==
    [type |-> "L1XEVM_DEPLOY", artifact_id |-> artifact_id, contract_id |-> "",
     response_hash |-> response_hash, response_address |-> response_address]
NoUpdate == L1XEBPF_DEPLOY("", 0, <<>>)

\* A plausible slip: every update starts from a new, empty registry.
read_registry_for_update_Fresh(f) == EmptyRegistry

\* update_toolkit_contract_address_registry, the read of the file: a missing
\* file is an empty registry
read_registry_for_update(f) ==
    IF f.st = "ok" THEN [l1x_vm |-> f.l1x_vm, l1x_evm |-> f.l1x_evm] ELSE EmptyRegistry

\* update_toolkit_contract_address_registry, the panic! of the read: the file
\* is read and serde_yaml cannot make a registry of it
yaml_panics(f) == f.st = "corrupt"

\* A plausible slip: an init for an unknown artifact is not refused.
update_panics_Never(config, update_type) == FALSE

\* update_toolkit_contract_address_registry, the panic! of the L1XEBPF_INIT arm
update_panics(config, update_type) ==
    /\ update_type.type = "L1XEBPF_INIT"
    /\ update_type.artifact_id \notin DOMAIN config.l1x_vm

\* A plausible slip: a new deploy keeps the instances of the old entry.
apply_update_KeepsInstances(config, update_type) ==
    CASE update_type.type = "L1XEBPF_DEPLOY" ->
            [config EXCEPT !.l1x_vm = insert(@, update_type.artifact_id,
                [deploy_hash |-> update_type.response_hash,
                 deploy_address |-> format_quoted_0x(update_type.response_address),
                 instance |-> IF update_type.artifact_id \in DOMAIN config.l1x_vm
                              THEN config.l1x_vm[update_type.artifact_id].instance
                              ELSE EmptyMap])]
      [] update_type.type = "L1XEBPF_INIT" ->
            IF update_type.artifact_id \in DOMAIN config.l1x_vm
            THEN [config EXCEPT !.l1x_vm[update_type.artifact_id].instance =
                    insert(@, update_type.contract_id,
                        [inst_hash |-> update_type.response_hash,
                         inst_address |-> format_quoted_0x(update_type.response_address)])]
            ELSE config
      [] update_type.type = "L1XEVM_DEPLOY" ->
            [config EXCEPT !.l1x_evm = insert(@, update_type.artifact_id,
                [deploy_hash |-> update_type.response_hash,
                 deploy_address |-> format_quoted_0x(
                     clean_address_string(update_type.response_address)),
                 instance |-> EmptyMap])]

\* A plausible slip: an init leaves its instance as the only one.
apply_update_InitOnlyInstance(config, update_type) ==
    CASE update_type.type = "L1XEBPF_DEPLOY" ->
            [config EXCEPT !.l1x_vm = insert(@, update_type.artifact_id,
                [deploy_hash |-> update_type.response_hash,
                 deploy_address |-> format_quoted_0x(update_type.response_address),
                 instance |-> EmptyMap])]
      [] update_type.type = "L1XEBPF_INIT" ->
            IF update_type.artifact_id \in DOMAIN config.l1x_vm
            THEN [config EXCEPT !.l1x_vm[update_type.artifact_id].instance =
                    insert(EmptyMap, update_type.contract_id,
                        [inst_hash |-> update_type.response_hash,
                         inst_address |-> format_quoted_0x(update_type.response_address)])]
            ELSE config
      [] update_type.type = "L1XEVM_DEPLOY" ->
            [config EXCEPT !.l1x_evm = insert(@, update_type.artifact_id,
                [deploy_hash |-> update_type.response_hash,
                 deploy_address |-> format_quoted_0x(
                     clean_address_string(update_type.response_address)),
                 instance |-> EmptyMap])]

\* update_toolkit_contract_address_registry, the match on update_type; the
\* L1XEBPF_INIT arm is entered only past its panic!, with the artifact present
apply_update(config, update_type) ==
    CASE update_type.type = "L1XEBPF_DEPLOY" ->
            [config EXCEPT !.l1x_vm = insert(@, update_type.artifact_id,
                [deploy_hash |-> update_type.response_hash,
                 deploy_address |-> format_quoted_0x(update_type.response_address),
                 instance |-> EmptyMap])]
      [] update_type.type = "L1XEBPF_INIT" ->
            IF update_type.artifact_id \in DOMAIN config.l1x_vm
            THEN [config EXCEPT !.l1x_vm[update_type.artifact_id].instance =
                    insert(@, update_type.contract_id,
                        [inst_hash |-> update_type.response_hash,
                         inst_address |-> format_quoted_0x(update_type.response_address)])]
            ELSE config
      [] update_type.type = "L1XEVM_DEPLOY" ->
            [config EXCEPT !.l1x_evm = insert(@, update_type.artifact_id,
                [deploy_hash |-> update_type.response_hash,
                 deploy_address |-> format_quoted_0x(
                     clean_address_string(update_type.response_address)),
                 instance |-> EmptyMap])]

(***************************************************************************)
(* Transactions and requests (l1x-common/src/lib.rs).                      *)
(***************************************************************************)
Transaction(kind, target) == [kind |-> kind, target |-> target]
\* Transaction::NativeTokenTransfer(address, amount)
NativeTokenTransfer(address, amount) ==
    [kind |-> "native_token_transfer", target |-> address, amount |-> amount]

NoSignature == [alg |-> "none", key |-> <<>>, msg |-> <<>>]
NoRequest ==
    [nonce |-> <<>>, fee_limit |-> <<>>, signature |-> NoSignature,
     verifying_key |-> <<>>, transaction_type |-> None]
NoResponse == [hash |-> 0, contract_address |-> None]

\* u128::to_string: the decimal digits of the number
DecChars == <<"0", "1", "2", "3", "4", "5", "6", "7", "8", "9">>
RECURSIVE to_string(_)
to_string(n) ==
    IF n < 10 THEN <<DecChars[n + 1]>>
    ELSE to_string(n \div 10) \o <<DecChars[(n % 10) + 1]>>

\* SecretKey::from_slice(&hex::decode(private_key)?): the key bytes, or an
\* error for a string that is not hex or is empty
SecretKey_from_hex(private_key) ==
    IF hex_parse_ok(private_key) /\ Len(private_key) > 0
    THEN Ok(<<"sk">> \o private_key) ELSE Err

\* SecretKey::public_key: a function of the secret key alone
public_key(secret_key) == <<"pk">> \o Tail(secret_key)

\* the width of an Address in this model (20 bytes in the program)
AddressLen == 2

\* A plausible slip: no transaction is taken for a native token transfer.
is_native_token_transfer_Never(txn_type) == FALSE

\* get_submit_txn_req: the match on the transaction type
is_native_token_transfer(txn_type) == txn_type.kind = "native_token_transfer"

\* serde_json::to_string of NativeTokenTransferPayload, field by field in
\* the order of the struct
NativeTokenTransferPayload_json(nonce, native_token, fee_limit) ==
    <<<<"nonce", nonce>>, <<"transaction_type", native_token>>,
      <<"fee_limit", fee_limit>>>>

\* Message::from_hashed_data::<sha256::Hash>
sha256(data) == [hash |-> "sha256", of |-> data]

\* A plausible slip: the signature draws fresh randomness at each call.
sign_ecdsa_Randomized(secret_key, message) ==
    [alg |-> "ecdsa", key |-> secret_key, msg |-> message, k |-> sign_call.calls]

\* SecretKey::sign_ecdsa: deterministic in the key and the message
sign_ecdsa(secret_key, message) ==
    [alg |-> "ecdsa", key |-> secret_key, msg |-> message]

\* l1x_rpc::sign: the signature over the RPC encoding of the transaction
\* type, the fee limit and the nonce
l1x_rpc_sign(secret_key, txn_type, fee_limit, nonce) ==
    [alg |-> "rpc", key |-> secret_key,
     msg |-> [transaction_type |-> txn_type, fee_limit |-> fee_limit,
              nonce |-> nonce]]

\* get_submit_txn_req: the key is parsed, the transaction is signed according
\* to its type, and the request carries nonce, fee limit and type as given
get_submit_txn_req(txn, private_key, fee_limit, nonce) ==
    LET secret_key == SecretKey_from_hex(private_key)
        verifying_key == public_key(secret_key.v)
        txn_type == txn
    IN  IF ~secret_key.ok THEN Err
        ELSE IF is_native_token_transfer(txn_type)
        THEN IF Len(txn_type.target) # AddressLen THEN Err
             ELSE LET native_token ==
                          <<txn_type.target, to_string(txn_type.amount)>>
                      json_str == NativeTokenTransferPayload_json(
                                      nonce, native_token, fee_limit)
                      sig == sign_ecdsa(secret_key.v, sha256(json_str))
                  IN  Ok([nonce |-> to_string(nonce),
                          fee_limit |-> to_string(fee_limit),
                          signature |-> sig,
                          verifying_key |-> verifying_key,
                          transaction_type |-> Some(txn_type)])
        ELSE Ok([nonce |-> to_string(nonce),
                 fee_limit |-> to_string(fee_limit),
                 signature |-> l1x_rpc_sign(secret_key.v, txn_type, fee_limit, nonce),
                 verifying_key |-> verifying_key,
                 transaction_type |-> Some(txn_type)])

\* load_submit_txn_req: the transaction read from the payload file
load_submit_txn_req(txn, private_key, fee_limit, nonce) ==
    get_submit_txn_req(txn, private_key, fee_limit, nonce)

\* L1XVmTxnExecutor::create_submit_txn_request
create_submit_txn_request(private_key, fee_limit, nonce, txn_function_call) ==
    get_submit_txn_req(txn_function_call, private_key, fee_limit, nonce + 1)

(***************************************************************************)
(* Invocations of the CLI.                                                 *)
(***************************************************************************)
\* the invocations of the CLI that exist; Spec runs one at a time
Procs == {1}
Payloads == {OX \o <<"0", "1">>, <<"z", "z">>}

InstallCmds ==
    [kind : {"install"}, vm_type : {"ebpf", "evm"}, force : BOOLEAN,
     artifact_id : Artifacts, contract_id : ContractIds,
     call_type : {"none"}, function_payload : {<<>>}]
SubTxnCmds ==
    [kind : {"sub_txn"}, vm_type : {"ebpf", "evm"}, force : {FALSE},
     artifact_id : Artifacts, contract_id : ContractIds,
     call_type : {"sub-txn", "ronly"}, function_payload : Payloads]
Commands == InstallCmds \cup SubTxnCmds
NoCmd ==
    [kind |-> "none", vm_type |-> "ebpf", force |-> FALSE, artifact_id |-> "",
     contract_id |-> "", call_type |-> "none", function_payload |-> <<>>]

NoStatus == [printed |-> FALSE, status |-> 0, message |-> <<>>]

\* the "result" of the JSON-RPC answer to l1x_smartContractReadOnlyCall: absent,
\* or a SmartContractReadOnlyCallResponse whose "result" reads as bytes or not
RonlyBytes == {<<>>, <<161>>}
RonlyResults ==
    {None}
    \cup {Some([status |-> st, result_ok |-> TRUE, result |-> b]) :
              st \in {0, 1}, b \in RonlyBytes}
    \cup {Some([status |-> st, result_ok |-> FALSE, result |-> <<>>]) : st \in {0, 1}}

\* print_transaction_status: the status printed is always 0
print_transaction_status(txn_response_message) ==
    [printed |-> TRUE, status |-> 0, message |-> hex_encode(txn_response_message)]

\* what the last invocation left behind: its exit code and what it printed
NoExit == [code |-> -1, outcome |-> "none", printed |-> FALSE, status |-> 0]

IdleProc ==
    [pc |-> "idle", cmd |-> NoCmd, phase |-> "none", target |-> <<>>,
     nonce |-> -1, request |-> NoRequest, response |-> NoResponse,
     events |-> <<>>, update_type |-> NoUpdate, config |-> EmptyRegistry,
     outcome |-> "none", err |-> "none", status_out |-> NoStatus,
     log |-> <<>>, file0 |-> MissingFile, file_pre |-> MissingFile,
     ronly |-> None, exited |-> NoExit]

NoRegCall == [n |-> 0, update_type |-> NoUpdate, result |-> "none", before |-> MissingFile]

NoNorm == [fn |-> "none", input |-> <<>>, calls |-> 0, prev |-> <<>>, out |-> <<>>]

NoSignCall ==
    [calls |-> 0, txn |-> Transaction("none", <<>>), private_key |-> <<>>,
     fee_limit |-> 0, nonce |-> 0, first |-> Err, second |-> Err]

NoNewCall == [st |-> "none"]

Init ==
    /\ file = MissingFile
    /\ chain_nonce = 0
    /\ proc = [p \in Procs |-> IdleProc]
    /\ reg_call = NoRegCall
    /\ norm = NoNorm
    /\ sign_call = NoSignCall
    /\ new_call = NoNewCall

Logged(r, op) == Append(r.log, [op |-> op, phase |-> r.phase])
Failed(r, err) == [r EXCEPT !.pc = "done", !.outcome = "Failed", !.err = err]
Done(r) == [r EXCEPT !.pc = "done", !.outcome = "Ok"]

\* main: a command line is parsed and its exec is entered
Start(p, cmd) ==
    /\ proc[p].pc = "idle"
    /\ proc' = [proc EXCEPT ![p] =
            [IdleProc EXCEPT !.pc = IF cmd.kind = "install" THEN "resolve" ELSE "lookup",
                             !.cmd = cmd, !.file0 = file, !.file_pre = file]]
    /\ UNCHANGED <<file, chain_nonce, reg_call, norm, sign_call, new_call>>

\* main: Ok(()) falls off the end of main, Err is printed and exits with 1,
\* a panic unwinds out of main
exit_code(outcome) ==
    CASE outcome = "Ok" -> 0
      [] outcome = "Failed" -> 1
      [] OTHER -> 101

\* main: exec has returned or panicked and the process ends
Exit(p) ==
    /\ proc[p].pc = "done"
    /\ proc' = [proc EXCEPT ![p] =
            [IdleProc EXCEPT !.exited =
                [code |-> exit_code(proc[p].outcome),
                 outcome |-> proc[p].outcome,
                 printed |-> proc[p].status_out.printed,
                 status |-> proc[p].status_out.status]]]
    /\ UNCHANGED <<file, chain_nonce, reg_call, norm, sign_call, new_call>>

(***************************************************************************)
(* vm-install-contract (contract_install.rs).                              *)
(***************************************************************************)
\* l1x_ebpf_install_contract / l1x_evm_install_contract: the registry is
\* consulted only without --force
artifact_deploy_status(cmd, f) ==
    IF cmd.force = FALSE
    THEN IF cmd.vm_type = "ebpf"
         THEN get_toolkit_ebpf_contract_address_for(f, cmd.artifact_id, None)
         ELSE get_toolkit_evm_contract_address_for(f, cmd.artifact_id, None)
    ELSE Err

\* A plausible slip: the cached arm deploys as well.
deploys_Always(force, status) == TRUE

\* the match on (self.force, artifact_deploy_status): its first arm deploys
deploys(force, status) == force \/ ~status.ok

\* A plausible slip: a registry that cannot be loaded ends the run.
ResolveEbpf_FailsOnLoadError(p) ==
    LET r == proc[p]
        status == artifact_deploy_status(r.cmd, file)
    IN  /\ r.pc = "resolve"
        /\ r.cmd.vm_type = "ebpf"
        /\ proc' = [proc EXCEPT ![p] =
                IF ~r.cmd.force /\ file.st # "ok"
                THEN Failed(r, "registry")
                ELSE IF deploys(r.cmd.force, status)
                THEN [r EXCEPT !.pc = "get_nonce", !.phase = "deploy"]
                ELSE [r EXCEPT !.pc = "get_nonce", !.phase = "init",
                               !.target = status.v]]
        /\ UNCHANGED <<file, chain_nonce, reg_call, norm, sign_call, new_call>>

\* l1x_ebpf_install_contract, up to the call of deploy or init
ResolveEbpf(p) ==
    LET r == proc[p]
        status == artifact_deploy_status(r.cmd, file)
    IN  /\ r.pc = "resolve"
        /\ r.cmd.vm_type = "ebpf"
        /\ proc' = [proc EXCEPT ![p] =
                IF deploys(r.cmd.force, status)
                THEN [r EXCEPT !.pc = "get_nonce", !.phase = "deploy"]
                ELSE [r EXCEPT !.pc = "get_nonce", !.phase = "init",
                               !.target = status.v]]
        /\ UNCHANGED <<file, chain_nonce, reg_call, norm, sign_call, new_call>>

\* A plausible slip: a registered artifact is reused even with --force.
ResolveEvm_ReusesEntry(p) ==
    LET r == proc[p]
        status == get_toolkit_evm_contract_address_for(file, r.cmd.artifact_id, None)
    IN  /\ r.pc = "resolve"
        /\ r.cmd.vm_type = "evm"
        /\ proc' = [proc EXCEPT ![p] =
                IF ~status.ok
                THEN [r EXCEPT !.pc = "evm_encode", !.phase = "deploy"]
                ELSE Done([r EXCEPT !.target = status.v])]
        /\ UNCHANGED <<file, chain_nonce, reg_call, norm, sign_call, new_call>>

\* l1x_evm_install_contract: a cached address ends the run with Ok(())
ResolveEvm(p) ==
    LET r == proc[p]
        status == artifact_deploy_status(r.cmd, file)
    IN  /\ r.pc = "resolve"
        /\ r.cmd.vm_type = "evm"
        /\ proc' = [proc EXCEPT ![p] =
                IF deploys(r.cmd.force, status)
                THEN [r EXCEPT !.pc = "evm_encode", !.phase = "deploy"]
                ELSE Done([r EXCEPT !.target = status.v])]
        /\ UNCHANGED <<file, chain_nonce, reg_call, norm, sign_call, new_call>>

\* l1x_evm_deploy_contract: the artifact's code parses as hex, or the run fails
EvmEncode(p, code_ok) ==
    LET r == proc[p]
    IN  /\ r.pc = "evm_encode"
        /\ proc' = [proc EXCEPT ![p] =
                IF code_ok THEN [r EXCEPT !.pc = "get_nonce"]
                ELSE Failed(r, "hex")]
        /\ UNCHANGED <<file, chain_nonce, reg_call, norm, sign_call, new_call>>

\* A plausible slip: a nonce another invocation holds unsubmitted is skipped.
GetNonce_Reserves(p) ==
    LET r == proc[p]
        held == {q \in (DOMAIN proc) \ {p} : proc[q].pc \in {"build", "submit"}}
    IN  /\ r.pc = "get_nonce"
        /\ proc' = [proc EXCEPT ![p] =
                [r EXCEPT !.pc = "build", !.nonce = chain_nonce + Cardinality(held),
                          !.log = Logged(r, "getNonce"), !.file_pre = file]]
        /\ UNCHANGED <<file, chain_nonce, reg_call, norm, sign_call, new_call>>

\* l1x_rpc_json::get_nonce answers with the account's nonce
GetNonce(p) ==
    LET r == proc[p]
    IN  /\ r.pc = "get_nonce"
        /\ proc' = [proc EXCEPT ![p] =
                [r EXCEPT !.pc = "build", !.nonce = chain_nonce,
                          !.log = Logged(r, "getNonce"), !.file_pre = file]]
        /\ UNCHANGED <<file, chain_nonce, reg_call, norm, sign_call, new_call>>

\* A plausible slip: a failed nonce fetch is tried again.
GetNonceFail_Retries(p) ==
    LET r == proc[p]
    IN  /\ r.pc = "get_nonce"
        /\ proc' = [proc EXCEPT ![p] =
                [r EXCEPT !.log = Logged(r, "getNonce"), !.file_pre = file]]
        /\ UNCHANGED <<file, chain_nonce, reg_call, norm, sign_call, new_call>>

\* get_nonce fails: map_err and ?
GetNonceFail(p) ==
    LET r == proc[p]
    IN  /\ r.pc = "get_nonce"
        /\ proc' = [proc EXCEPT ![p] =
                Failed([r EXCEPT !.log = Logged(r, "getNonce"), !.file_pre = file],
                       "nonce")]
        /\ UNCHANGED <<file, chain_nonce, reg_call, norm, sign_call, new_call>>

\* the private key of the workspace configuration and the --fee_limit of the
\* command line (its default)
cfg_private_key == <<"0", "1">>
cmd_fee_limit == 100

\* the transaction each flow signs
txn_of(r) ==
    CASE r.phase = "deploy" -> Transaction("deployment", <<>>)
      [] r.phase = "init" -> Transaction("init", r.target)
      [] r.phase = "call" -> Transaction("function_call", r.target)

\* the SubmitTransactionRequest each flow builds from the fetched nonce
request_of(r) ==
    CASE r.phase = "call" ->
            create_submit_txn_request(cfg_private_key, cmd_fee_limit,
                                      r.nonce + 1, txn_of(r))
      [] r.phase \in {"deploy", "init"} /\ r.cmd.vm_type = "ebpf" ->
            load_submit_txn_req(txn_of(r), cfg_private_key, cmd_fee_limit,
                                r.nonce + 1)
      [] OTHER -> get_submit_txn_req(txn_of(r), cfg_private_key, cmd_fee_limit,
                                     r.nonce + 1)

\* the request is built and signed; the init payload's hex field has to parse
BuildRequest(p) ==
    LET r == proc[p]
    IN  /\ r.pc = "build"
        /\ r.phase = "init" => hex_parse_ok(r.target)
        /\ proc' = [proc EXCEPT ![p] =
                [r EXCEPT !.pc = "submit", !.request = request_of(r).v]]
        /\ UNCHANGED <<file, chain_nonce, reg_call, norm, sign_call, new_call>>

\* A plausible slip: a failed init takes the deploy entry back out.
BuildRequestFail_RollsBack(p) ==
    LET r == proc[p]
        a == r.cmd.artifact_id
    IN  /\ r.pc = "build"
        /\ proc' = [proc EXCEPT ![p] = Failed(r, "request")]
        /\ file' = IF r.phase = "init" /\ a \in DOMAIN file.l1x_vm
                   THEN [file EXCEPT !.l1x_vm =
                            [x \in (DOMAIN file.l1x_vm) \ {a} |-> file.l1x_vm[x]]]
                   ELSE file
        /\ UNCHANGED <<chain_nonce, reg_call, norm, sign_call, new_call>>

\* load_submit_txn_req / get_submit_txn_req fails: map_err and ?
BuildRequestFail(p) ==
    LET r == proc[p]
    IN  /\ r.pc = "build"
        /\ proc' = [proc EXCEPT ![p] = Failed(r, "request")]
        /\ UNCHANGED <<file, chain_nonce, reg_call, norm, sign_call, new_call>>

\* l1x_submitTransaction is accepted and its response parses
SubmitTransaction(p, contract_address) ==
    LET r == proc[p]
    IN  /\ r.pc = "submit"
        /\ chain_nonce < MaxNonce
        /\ chain_nonce' = chain_nonce + 1
        /\ proc' = [proc EXCEPT ![p] =
                [r EXCEPT !.pc = "sleep",
                          !.response = [hash |-> chain_nonce + 1,
                                        contract_address |-> contract_address],
                          !.log = Logged(r, "submitTransaction")]]
        /\ UNCHANGED <<file, reg_call, norm, sign_call, new_call>>

\* A plausible slip: the failed submission still leaves an entry behind.
SubmitTransactionFail_Commits(p, stage) ==
    LET r == proc[p]
    IN  /\ r.pc = "submit"
        /\ file' = FileOf(apply_update(read_registry_for_update(file),
                        L1XEBPF_DEPLOY(r.cmd.artifact_id, 0, <<>>)))
        /\ proc' = [proc EXCEPT ![p] =
                Failed([r EXCEPT !.log = Logged(r, "submitTransaction")], stage)]
        /\ UNCHANGED <<chain_nonce, reg_call, norm, sign_call, new_call>>

\* post_json_rpc or parse_response fails: map_err and ?
SubmitTransactionFail(p, stage) ==
    LET r == proc[p]
    IN  /\ r.pc = "submit"
        /\ proc' = [proc EXCEPT ![p] =
                Failed([r EXCEPT !.log = Logged(r, "submitTransaction")], stage)]
        /\ UNCHANGED <<file, chain_nonce, reg_call, norm, sign_call, new_call>>

\* A plausible slip: the events are never polled.
Sleep_SkipsPoll(p) ==
    LET r == proc[p]
    IN  /\ r.pc = "sleep"
        /\ proc' = [proc EXCEPT ![p] =
                [r EXCEPT !.pc = "extract", !.log = Logged(r, "sleep")]]
        /\ UNCHANGED <<file, chain_nonce, reg_call, norm, sign_call, new_call>>

\* tokio::time::sleep(10 s)
Sleep(p) ==
    LET r == proc[p]
    IN  /\ r.pc = "sleep"
        /\ proc' = [proc EXCEPT ![p] =
                [r EXCEPT !.pc = "get_events", !.log = Logged(r, "sleep")]]
        /\ UNCHANGED <<file, chain_nonce, reg_call, norm, sign_call, new_call>>

\* A plausible slip: an empty answer is polled for again after another wait.
GetEvents_Repolls(p, events_data) ==
    LET r == proc[p]
    IN  /\ r.pc = "get_events"
        /\ proc' = [proc EXCEPT ![p] =
                IF events_data = <<>>
                THEN [r EXCEPT !.pc = "sleep",
                               !.log = SubSeq(r.log, 1, Len(r.log) - 1)]
                ELSE [r EXCEPT !.pc = "extract", !.events = events_data,
                               !.log = Logged(r, "getEvents")]]
        /\ UNCHANGED <<file, chain_nonce, reg_call, norm, sign_call, new_call>>

\* l1x_getEvents answers with events_data
GetEvents(p, events_data) ==
    LET r == proc[p]
    IN  /\ r.pc = "get_events"
        /\ proc' = [proc EXCEPT ![p] =
                [r EXCEPT !.pc = "extract", !.events = events_data,
                          !.log = Logged(r, "getEvents")]]
        /\ UNCHANGED <<file, chain_nonce, reg_call, norm, sign_call, new_call>>

\* A plausible slip: a deploy whose poll failed still goes on to init.
GetEventsFail_Continues(p) ==
    LET r == proc[p]
    IN  /\ r.pc = "get_events"
        /\ proc' = [proc EXCEPT ![p] =
                IF r.cmd.kind = "install" /\ r.cmd.vm_type = "ebpf" /\ r.phase = "deploy"
                THEN [r EXCEPT !.pc = "get_nonce", !.phase = "init",
                               !.target = unwrap_or_default(r.response.contract_address),
                               !.log = Logged(r, "getEvents")]
                ELSE Failed([r EXCEPT !.log = Logged(r, "getEvents")], "events")]
        /\ UNCHANGED <<file, chain_nonce, reg_call, norm, sign_call, new_call>>

\* l1x_getEvents or the parse of its response fails: map_err and ?
GetEventsFail(p) ==
    LET r == proc[p]
    IN  /\ r.pc = "get_events"
        /\ proc' = [proc EXCEPT ![p] =
                Failed([r EXCEPT !.log = Logged(r, "getEvents")], "events")]
        /\ UNCHANGED <<file, chain_nonce, reg_call, norm, sign_call, new_call>>

\* l1x_evm_deploy_contract, the loop over events_data: every event has to be
\* JSON, and the first one's "address" is kept
deployed_address_from_event(events_data) ==
    IF \E i \in 1..Len(events_data) : ~events_data[i].valid THEN Err
    ELSE IF events_data = <<>> THEN Ok(None)
    ELSE Ok(Some(json_to_string(events_data[1].address)))

\* the response_address of the ebpf updates
ebpf_response_address(response, events_data) ==
    unwrap_or_default(response.contract_address)

\* A plausible slip: the submit response's address is preferred, as for ebpf.
evm_response_address_FromResponse(response, events_data) ==
    IF response.contract_address.some
    THEN response.contract_address.v
    ELSE unwrap_or_default(deployed_address_from_event(events_data).v)

\* the response_address of the evm update
evm_response_address(response, events_data) ==
    unwrap_or_default(deployed_address_from_event(events_data).v)

\* l1x_ebpf_deploy_contract / l1x_ebpf_init_contract: the events are logged
\* and the update is made from the submit response
ExtractEbpf(p) ==
    LET r == proc[p]
        addr == ebpf_response_address(r.response, r.events)
    IN  /\ r.pc = "extract"
        /\ r.cmd.kind = "install"
        /\ r.cmd.vm_type = "ebpf"
        /\ proc' = [proc EXCEPT ![p] =
                [r EXCEPT !.pc = "update", !.log = Logged(r, "extract"),
                          !.update_type =
                              IF r.phase = "deploy"
                              THEN L1XEBPF_DEPLOY(r.cmd.artifact_id, r.response.hash, addr)
                              ELSE L1XEBPF_INIT(r.cmd.artifact_id, r.cmd.contract_id,
                                                r.response.hash, addr)]]
        /\ UNCHANGED <<file, chain_nonce, reg_call, norm, sign_call, new_call>>

\* l1x_evm_deploy_contract: an event that is not JSON fails the run before
\* the registry is touched
ExtractEvm(p) ==
    LET r == proc[p]
    IN  /\ r.pc = "extract"
        /\ r.cmd.kind = "install"
        /\ r.cmd.vm_type = "evm"
        /\ proc' = [proc EXCEPT ![p] =
                IF deployed_address_from_event(r.events).ok
                THEN [r EXCEPT !.pc = "update", !.log = Logged(r, "extract"),
                               !.update_type =
                                   L1XEVM_DEPLOY(r.cmd.artifact_id, r.response.hash,
                                       evm_response_address(r.response, r.events))]
                ELSE Failed(r, "event_json")]
        /\ UNCHANGED <<file, chain_nonce, reg_call, norm, sign_call, new_call>>

\* update_toolkit_contract_address_registry: the file is read and the update
\* applied in memory, or the call panics
UpdateRead(p) ==
    LET r == proc[p]
        config == read_registry_for_update(file)
    IN  /\ r.pc = "update"
        /\ proc' = [proc EXCEPT ![p] =
                IF yaml_panics(file) \/ update_panics(config, r.update_type)
                THEN [r EXCEPT !.pc = "done", !.outcome = "Panic", !.err = "registry"]
                ELSE [r EXCEPT !.pc = "update_write",
                               !.config = apply_update(config, r.update_type)]]
        /\ UNCHANGED <<file, chain_nonce, reg_call, norm, sign_call, new_call>>

\* where the run goes once the registry is written: the ebpf install goes on
\* to init with the deploy response's address
after_update(r) ==
    IF r.cmd.vm_type = "ebpf" /\ r.phase = "deploy"
    THEN [r EXCEPT !.pc = "get_nonce", !.phase = "init",
                   !.target = unwrap_or_default(r.response.contract_address),
                   !.nonce = -1, !.request = NoRequest, !.response = NoResponse,
                   !.events = <<>>, !.update_type = NoUpdate]
    ELSE Done(r)

\* A plausible slip: the update is applied to the file as it is at the write.
UpdateWrite_Rereads(p) ==
    LET r == proc[p]
    IN  /\ r.pc = "update_write"
        /\ file' = FileOf(apply_update(read_registry_for_update(file), r.update_type))
        /\ proc' = [proc EXCEPT ![p] =
                after_update([r EXCEPT !.log = Logged(r, "write"),
                                       !.config = EmptyRegistry])]
        /\ UNCHANGED <<chain_nonce, reg_call, norm, sign_call, new_call>>

\* update_toolkit_contract_address_registry: the whole registry is written back
UpdateWrite(p) ==
    LET r == proc[p]
    IN  /\ r.pc = "update_write"
        /\ file' = FileOf(r.config)
        /\ proc' = [proc EXCEPT ![p] =
                after_update([r EXCEPT !.log = Logged(r, "write"),
                                       !.config = EmptyRegistry])]
        /\ UNCHANGED <<chain_nonce, reg_call, norm, sign_call, new_call>>

(***************************************************************************)
(* vm-sub-txn, call type sub-txn (contract_sub_txn.rs).                    *)
(***************************************************************************)
\* A plausible slip: a lookup that finds nothing goes on with an empty target.
Lookup_GoesOnUnknown(p) ==
    LET r == proc[p]
        status == IF r.cmd.vm_type = "ebpf"
                  THEN get_toolkit_ebpf_contract_address_for(
                           file, r.cmd.artifact_id, Some(r.cmd.contract_id))
                  ELSE get_toolkit_evm_contract_address_for(
                           file, r.cmd.artifact_id, None)
    IN  /\ r.pc = "lookup"
        /\ proc' = [proc EXCEPT ![p] =
                [r EXCEPT !.pc = IF r.cmd.call_type = "sub-txn"
                                 THEN "call_encode" ELSE "ronly_encode",
                          !.phase = "call",
                          !.target = IF status.ok THEN status.v ELSE <<>>]]
        /\ UNCHANGED <<file, chain_nonce, reg_call, norm, sign_call, new_call>>

\* l1x_vm_sub_txn: the target address comes from the registry
Lookup(p) ==
    LET r == proc[p]
        status == IF r.cmd.vm_type = "ebpf"
                  THEN get_toolkit_ebpf_contract_address_for(
                           file, r.cmd.artifact_id, Some(r.cmd.contract_id))
                  ELSE get_toolkit_evm_contract_address_for(
                           file, r.cmd.artifact_id, None)
    IN  /\ r.pc = "lookup"
        /\ proc' = [proc EXCEPT ![p] =
                IF status.ok
                THEN [r EXCEPT !.pc = IF r.cmd.call_type = "sub-txn"
                                      THEN "call_encode" ELSE "ronly_encode",
                               !.phase = "call", !.target = status.v]
                ELSE Failed(r, "notfound")]
        /\ UNCHANGED <<file, chain_nonce, reg_call, norm, sign_call, new_call>>

\* A plausible slip: the nonce is fetched before the call is encoded.
CallEncode_AfterNonce(p) ==
    LET r == proc[p]
        clean_hex_contract_address == clean_string(r.target)
        clean_hex_function_payload == clean_string(r.cmd.function_payload)
    IN  /\ r.pc = "call_encode"
        /\ proc' = [proc EXCEPT ![p] =
                IF /\ hex_parse_ok(clean_hex_contract_address)
                   /\ hex_parse_ok(clean_hex_function_payload)
                THEN [r EXCEPT !.pc = "get_nonce",
                               !.target = clean_hex_contract_address]
                ELSE Failed([r EXCEPT !.log = Logged(r, "getNonce")], "hex")]
        /\ UNCHANGED <<file, chain_nonce, reg_call, norm, sign_call, new_call>>

\* l1x_vm_submit_txn: clean_string and create_txn_function_call
CallEncode(p) ==
    LET r == proc[p]
        clean_hex_contract_address == clean_string(r.target)
        clean_hex_function_payload == clean_string(r.cmd.function_payload)
    IN  /\ r.pc = "call_encode"
        /\ proc' = [proc EXCEPT ![p] =
                IF /\ hex_parse_ok(clean_hex_contract_address)
                   /\ hex_parse_ok(clean_hex_function_payload)
                THEN [r EXCEPT !.pc = "get_nonce",
                               !.target = clean_hex_contract_address]
                ELSE Failed(r, "hex")]
        /\ UNCHANGED <<file, chain_nonce, reg_call, norm, sign_call, new_call>>

\* l1x_vm_submit_txn: events_data is read as one Vec<u8> and printed with
\* status 0
CallExtract(p) ==
    LET r == proc[p]
    IN  /\ r.pc = "extract"
        /\ r.cmd.kind = "sub_txn"
        /\ proc' = [proc EXCEPT ![p] =
                IF r.events = <<>>
                THEN Done([r EXCEPT !.status_out = print_transaction_status(<<>>)])
                ELSE Failed(r, "event_json")]
        /\ UNCHANGED <<file, chain_nonce, reg_call, norm, sign_call, new_call>>

(***************************************************************************)
(* vm-sub-txn, call type ronly (contract_sub_txn.rs).                      *)
(***************************************************************************)
\* A plausible slip: the read-only call goes through the submission path.
ReadOnlyEncode_ViaSubmit(p) ==
    LET r == proc[p]
    IN  /\ r.pc = "ronly_encode"
        /\ proc' = [proc EXCEPT ![p] =
                [r EXCEPT !.pc = "get_nonce", !.target = clean_string(r.target)]]
        /\ UNCHANGED <<file, chain_nonce, reg_call, norm, sign_call, new_call>>

\* l1x_vm_read_only_call: clean_string and create_ronly_txn_function_call
ReadOnlyEncode(p) ==
    LET r == proc[p]
        clean_hex_contract_address == clean_string(r.target)
        clean_hex_function_payload == clean_string(r.cmd.function_payload)
    IN  /\ r.pc = "ronly_encode"
        /\ proc' = [proc EXCEPT ![p] =
                IF /\ hex_parse_ok(clean_hex_contract_address)
                   /\ hex_parse_ok(clean_hex_function_payload)
                THEN [r EXCEPT !.pc = "ronly_call",
                               !.target = clean_hex_contract_address]
                ELSE Failed(r, "hex")]
        /\ UNCHANGED <<file, chain_nonce, reg_call, norm, sign_call, new_call>>

\* l1x_vm_read_only_call: try_into the SmartContractReadOnlyCallRequest fails
ReadOnlyRequestFail(p) ==
    LET r == proc[p]
    IN  /\ r.pc = "ronly_call"
        /\ proc' = [proc EXCEPT ![p] = Failed(r, "request")]
        /\ UNCHANGED <<file, chain_nonce, reg_call, norm, sign_call, new_call>>

\* l1x_vm_read_only_call: the match on txn_result.result; the status of the
\* response is not read
ronly_status(txn_result) ==
    IF ~txn_result.some
    THEN Ok([printed |-> TRUE, status |-> 1, message |-> <<"InValid Inner Response">>])
    ELSE IF txn_result.v.result_ok
         THEN Ok(print_transaction_status(txn_result.v.result))
         ELSE Err

\* l1x_smartContractReadOnlyCall is answered and the answer is printed
ReadOnlyCall(p, txn_result) ==
    LET r == proc[p]
        called == [r EXCEPT !.log = Logged(r, "readOnlyCall"), !.ronly = txn_result]
        out == ronly_status(txn_result)
    IN  /\ r.pc = "ronly_call"
        /\ proc' = [proc EXCEPT ![p] =
                IF out.ok THEN Done([called EXCEPT !.status_out = out.v])
                ELSE Failed(called, "json")]
        /\ UNCHANGED <<file, chain_nonce, reg_call, norm, sign_call, new_call>>

\* post_json_rpc of l1x_smartContractReadOnlyCall fails: map_err and ?
ReadOnlyCallFail(p) ==
    LET r == proc[p]
    IN  /\ r.pc = "ronly_call"
        /\ proc' = [proc EXCEPT ![p] =
                Failed([r EXCEPT !.log = Logged(r, "readOnlyCall")], "post")]
        /\ UNCHANGED <<file, chain_nonce, reg_call, norm, sign_call, new_call>>

(***************************************************************************)
(* One invocation at a time.                                               *)
(***************************************************************************)
\* a step of the invocation that is running
RunStep(p) ==
    \/ ResolveEbpf(p)
    \/ ResolveEvm(p)
    \/ \E code_ok \in BOOLEAN : EvmEncode(p, code_ok)
    \/ GetNonce(p)
    \/ GetNonceFail(p)
    \/ BuildRequest(p)
    \/ BuildRequestFail(p)
    \/ \E contract_address \in RespAddrs : SubmitTransaction(p, contract_address)
    \/ \E stage \in {"submit", "parse"} : SubmitTransactionFail(p, stage)
    \/ Sleep(p)
    \/ \E events_data \in EventLists : GetEvents(p, events_data)
    \/ GetEventsFail(p)
    \/ ExtractEbpf(p)
    \/ ExtractEvm(p)
    \/ UpdateRead(p)
    \/ UpdateWrite(p)
    \/ Lookup(p)
    \/ CallEncode(p)
    \/ CallExtract(p)
    \/ ReadOnlyEncode(p)
    \/ ReadOnlyRequestFail(p)
    \/ \E txn_result \in RonlyResults : ReadOnlyCall(p, txn_result)
    \/ ReadOnlyCallFail(p)

Step(p) ==
    \/ \E cmd \in Commands : Start(p, cmd)
    \/ Exit(p)
    \/ RunStep(p)

Next == \E p \in Procs : Step(p)

Spec == Init /\ [][Next]_vars

(***************************************************************************)
(* The registry on its own: any sequence of updates by a single caller.    *)
(***************************************************************************)
AddrInputs == {A1, OX \o B2}
HashInputs == {1, 2}
UpdateInputs ==
    {L1XEBPF_DEPLOY(a, h, x) : a \in Artifacts, h \in HashInputs, x \in AddrInputs}
    \cup {L1XEVM_DEPLOY(a, h, x) : a \in Artifacts, h \in HashInputs, x \in AddrInputs}
    \cup UNION {{L1XEBPF_INIT(a, c, h, x) : a \in Artifacts, h \in HashInputs,
                                            x \in AddrInputs} : c \in ContractIds}

\* update_toolkit_contract_address_registry, called once from start to end
Upsert(update_type) ==
    LET config == read_registry_for_update(file)
    IN  /\ reg_call.n < MaxUpserts
        /\ IF yaml_panics(file) \/ update_panics(config, update_type)
           THEN /\ file' = file
                /\ reg_call' = [n |-> reg_call.n + 1, update_type |-> update_type,
                                result |-> "panic", before |-> file]
           ELSE /\ file' = FileOf(apply_update(config, update_type))
                /\ reg_call' = [n |-> reg_call.n + 1, update_type |-> update_type,
                                result |-> "ok", before |-> file]
        /\ UNCHANGED <<chain_nonce, proc, norm, sign_call, new_call>>

NextRegistry == \E update_type \in UpdateInputs : Upsert(update_type)

SpecRegistry == Init /\ [][NextRegistry]_vars

(***************************************************************************)
(* The registry under two invocations at once: each call of                *)
(* update_toolkit_contract_address_registry reads the file, then writes    *)
(* it, and the other invocation may run in between.                        *)
(***************************************************************************)
RaceProcs == {1, 2}

InitRace ==
    /\ file = MissingFile
    /\ chain_nonce = 0
    /\ proc = [p \in RaceProcs |-> IdleProc]
    /\ reg_call = NoRegCall
    /\ norm = NoNorm
    /\ sign_call = NoSignCall
    /\ new_call = NoNewCall

\* an invocation arrives at its call of update_toolkit_contract_address_registry
CallUpdate(p, update_type) ==
    /\ proc[p].pc = "idle"
    /\ reg_call.n < MaxRaceCalls
    /\ proc' = [proc EXCEPT ![p] =
            [IdleProc EXCEPT !.pc = "update", !.update_type = update_type,
                             !.file0 = file, !.file_pre = file]]
    /\ reg_call' = [reg_call EXCEPT !.n = @ + 1]
    /\ UNCHANGED <<file, chain_nonce, norm, sign_call, new_call>>

NextRace ==
    \E p \in RaceProcs :
        \/ \E update_type \in UpdateInputs : CallUpdate(p, update_type)
        \/ UpdateRead(p)
        \/ UpdateWrite(p)
        \/ Exit(p)

SpecRace == InitRace /\ [][NextRace]_vars

(***************************************************************************)
(* clean_string and clean_address_string on their own: a hex string with   *)
(* or without 0x, bare, in double quotes, or in quotes within blanks, is   *)
(* cleaned and the result cleaned again.                                   *)
(***************************************************************************)
RECURSIVE HexStringsOfLen(_)
HexStringsOfLen(n) ==
    IF n = 0 THEN {<<>>}
    ELSE {Append(h, d) : h \in HexStringsOfLen(n - 1), d \in HexDigits}
HexStrings == UNION {HexStringsOfLen(n) : n \in 0..MaxHexLen}

NormalizeInputs ==
    LET prefixed == HexStrings \cup {OX \o h : h \in HexStrings}
        quoted == {<<DQ>> \o x \o <<DQ>> : x \in prefixed}
        spaced == {<<SP>> \o x \o <<SP>> : x \in quoted}
    IN  prefixed \cup quoted \cup spaced

InitNormalize ==
    /\ file = MissingFile
    /\ chain_nonce = 0
    /\ proc = [p \in Procs |-> IdleProc]
    /\ reg_call = NoRegCall
    /\ norm \in {[fn |-> fn, input |-> x, calls |-> 0, prev |-> x, out |-> x] :
                     fn \in {"clean_string", "clean_address_string"},
                     x \in NormalizeInputs}
    /\ sign_call = NoSignCall
    /\ new_call = NoNewCall

\* L1XVmTxnExecutor::clean_string applied to the string at hand
CleanString ==
    /\ norm.fn = "clean_string"
    /\ norm.calls < 2
    /\ norm' = [norm EXCEPT !.calls = @ + 1, !.prev = norm.out,
                            !.out = clean_string(norm.out)]
    /\ UNCHANGED <<file, chain_nonce, proc, reg_call, sign_call, new_call>>

\* clean_address_string applied to the string at hand
CleanAddressString ==
    /\ norm.fn = "clean_address_string"
    /\ norm.calls < 2
    /\ norm' = [norm EXCEPT !.calls = @ + 1, !.prev = norm.out,
                            !.out = clean_address_string(norm.out)]
    /\ UNCHANGED <<file, chain_nonce, proc, reg_call, sign_call, new_call>>

NextNormalize == CleanString \/ CleanAddressString

SpecNormalize == InitNormalize /\ [][NextNormalize]_vars

(***************************************************************************)
(* Properties.                                                             *)
(***************************************************************************)
LogIdx(r, op, phase) ==
    {i \in 1..Len(r.log) : r.log[i].op = op /\ r.log[i].phase = phase}
LogOps(r, op) == {i \in 1..Len(r.log) : r.log[i].op = op}
LogIs(r, i, op, phase) ==
    i >= 1 /\ i <= Len(r.log) /\ r.log[i].op = op /\ r.log[i].phase = phase

\* the table an install of this VM type looks its artifact up in
TableOf(f, vm_type) == IF vm_type = "ebpf" THEN f.l1x_vm ELSE f.l1x_evm
HasEntry(f, cmd) ==
    f.st = "ok" /\ cmd.artifact_id \in DOMAIN TableOf(f, cmd.vm_type)

\* an address as the registry persists it: "0x<digits>" in double quotes
Quoted0x(digits) == <<"\"", "0", "x">> \o digits \o <<"\"">>
\* the digits of an address given with or without a 0x prefix
Bare(x) ==
    IF Len(x) >= 2 /\ x[1] = "0" /\ x[2] = "x" THEN SubSeq(x, 3, Len(x)) ELSE x

\* C1: an install without --force whose artifact is already in the registry
\* of its VM type submits no deployment; the evm install submits nothing.
C1_CachedInstallSubmitsNoDeployment ==
    \A p \in Procs :
        LET r == proc[p]
        IN  (r.cmd.kind = "install" /\ ~r.cmd.force /\ HasEntry(r.file0, r.cmd))
            => /\ r.phase # "deploy"
               /\ LogIdx(r, "submitTransaction", "deploy") = {}
               /\ r.cmd.vm_type = "evm" => r.log = <<>>

C1_Witness ==
    \E p \in Procs :
        LET r == proc[p]
        IN  /\ r.cmd.kind = "install" /\ ~r.cmd.force /\ HasEntry(r.file0, r.cmd)
            /\ r.pc = "done" /\ r.outcome = "Ok"
            /\ r.cmd.vm_type = "ebpf"
            /\ LogIdx(r, "submitTransaction", "init") # {}

\* C2: a run that fails at the nonce fetch, at building the request, at
\* submitTransaction or at parsing its response has ended, as Failed, and the
\* registry file is what it was when that submission began.
C2_FailedSubmissionLeavesRegistry ==
    \A p \in Procs :
        LET r == proc[p]
        IN  r.err \in {"nonce", "request", "submit", "parse"}
            => r.pc = "done" /\ r.outcome = "Failed" /\ file = r.file_pre

C2_Witness ==
    \E p \in Procs :
        LET r == proc[p]
        IN  /\ r.err = "parse" /\ r.phase = "init"
            /\ LogIdx(r, "write", "deploy") # {}
            /\ file = r.file_pre
            /\ r.cmd.artifact_id \in DOMAIN file.l1x_vm
            /\ DOMAIN file.l1x_vm[r.cmd.artifact_id].instance = {}

\* C3 (as claimed): in every flow the request carries the fetched nonce plus
\* one, and getNonce is the call right before each submitTransaction.
C3_SubmittedNonceIsFetchedPlusOne ==
    \A p \in Procs :
        LET r == proc[p]
        IN  /\ r.request # NoRequest => r.request.nonce = to_string(r.nonce + 1)
            /\ \A i \in LogOps(r, "submitTransaction") :
                   LogIs(r, i - 1, "getNonce", r.log[i].phase)

\* C4: a registry write comes after the extraction, which comes after the
\* getEvents of that submission, which comes after the delay, which comes
\* after its submitTransaction.
C4_SubmitThenPollThenPersist ==
    \A p \in Procs :
        LET r == proc[p]
        IN  /\ \A i \in LogOps(r, "write") :
                   /\ LogIs(r, i - 1, "extract", r.log[i].phase)
                   /\ LogIs(r, i - 2, "getEvents", r.log[i].phase)
            /\ \A i \in LogOps(r, "extract") :
                   LogIs(r, i - 1, "getEvents", r.log[i].phase)
            /\ \A i \in LogOps(r, "getEvents") :
                   /\ LogIs(r, i - 1, "sleep", r.log[i].phase)
                   /\ LogIs(r, i - 2, "submitTransaction", r.log[i].phase)
            /\ r.pc \in {"update", "update_write"} =>
                   LogIdx(r, "getEvents", r.phase) # {}

C4_Witness ==
    \E p \in Procs :
        LET r == proc[p]
        IN  /\ r.pc = "done" /\ r.outcome = "Ok" /\ r.cmd.vm_type = "ebpf"
            /\ LogIdx(r, "write", "deploy") # {}
            /\ LogIdx(r, "write", "init") # {}

\* the address of the submission at hand is resolved
AddressResolved(r) ==
    IF r.cmd.vm_type = "ebpf"
    THEN r.response.contract_address.some
    ELSE r.events # <<>> /\ r.events[1].address.some

\* C5 (as claimed): the registry is written only when the address of the
\* submission is resolved.
C5_WritesOnlyResolvedAddress ==
    [][\A p \in Procs :
          (proc[p].pc = "update_write" /\ proc'[p].pc # "update_write")
          => AddressResolved(proc[p])]_vars

\* the l1x_vm table a registry update starts from
VmBefore(f) == IF f.st = "ok" THEN f.l1x_vm ELSE EmptyMap

\* C6: the ebpf-init update for an artifact without a deploy entry panics,
\* and only that update does; the file is then what it was; and every entry
\* of l1x_vm, with all its instances, was made by a deploy update.
C6_InitWithoutDeployPanics ==
    /\ reg_call.result # "none" =>
           (reg_call.result = "panic"
            <=> /\ reg_call.update_type.type = "L1XEBPF_INIT"
                /\ reg_call.update_type.artifact_id
                       \notin DOMAIN VmBefore(reg_call.before))
    /\ reg_call.result = "panic" => file = reg_call.before
    /\ \A a \in DOMAIN file.l1x_vm :
           /\ file.l1x_vm[a].deploy_hash \in HashInputs
           /\ \E x \in AddrInputs : file.l1x_vm[a].deploy_address = Quoted0x(x)

C6_Witness ==
    /\ reg_call.result = "panic"
    /\ reg_call.before.st = "ok"
    /\ DOMAIN reg_call.before.l1x_vm # {}
    /\ \E a \in DOMAIN file.l1x_vm : DOMAIN file.l1x_vm[a].instance # {}
    /\ file = reg_call.before

\* C7 (as claimed): an ebpf install without --force whose artifact and
\* instance are both registered does nothing on the chain and ends Ok.
C7_RegisteredInstanceNoChainInteraction ==
    \A p \in Procs :
        LET r == proc[p]
        IN  (/\ r.cmd.kind = "install" /\ r.cmd.vm_type = "ebpf" /\ ~r.cmd.force
             /\ r.file0.st = "ok"
             /\ r.cmd.artifact_id \in DOMAIN r.file0.l1x_vm
             /\ r.cmd.contract_id
                    \in DOMAIN r.file0.l1x_vm[r.cmd.artifact_id].instance)
            => /\ r.log = <<>>
               /\ r.pc = "done" => r.outcome = "Ok"

\* C8: an evm install without --force of an artifact that is not registered,
\* when it ends Ok, has made exactly one submitTransaction, then the delay,
\* then one getEvents, and has written the hash of the submission and, for a
\* first event with an address, that address as "0x<digits>" in quotes.
C8_EvmInstallEndToEnd ==
    \A p \in Procs :
        LET r == proc[p]
            a == r.cmd.artifact_id
        IN  (/\ r.cmd.kind = "install" /\ r.cmd.vm_type = "evm" /\ ~r.cmd.force
             /\ ~HasEntry(r.file0, r.cmd)
             /\ r.pc = "done" /\ r.outcome = "Ok")
            => /\ Len(r.log) = 6
               /\ LogIs(r, 1, "getNonce", "deploy")
               /\ LogIs(r, 2, "submitTransaction", "deploy")
               /\ LogIs(r, 3, "sleep", "deploy")
               /\ LogIs(r, 4, "getEvents", "deploy")
               /\ LogIs(r, 5, "extract", "deploy")
               /\ LogIs(r, 6, "write", "deploy")
               /\ file.st = "ok" /\ a \in DOMAIN file.l1x_evm
               /\ file.l1x_evm[a].deploy_hash = r.response.hash
               /\ (r.events # <<>> /\ r.events[1].address.some) =>
                      file.l1x_evm[a].deploy_address
                          = Quoted0x(Bare(r.events[1].address.v))

C8_Witness ==
    \E p \in Procs :
        LET r == proc[p]
        IN  /\ r.cmd.kind = "install" /\ r.cmd.vm_type = "evm" /\ ~r.cmd.force
            /\ ~HasEntry(r.file0, r.cmd)
            /\ r.pc = "done" /\ r.outcome = "Ok"
            /\ Len(r.events) = 2
            /\ r.events[1].address = Some(<<"0", "x", "b", "2">>)
            /\ file.l1x_evm[r.cmd.artifact_id].deploy_address
                   = <<"\"", "0", "x", "b", "2", "\"">>

\* C9: an ebpf install without --force whose artifact is registered submits
\* no deployment, and its init targets the registered deploy address without
\* its quotes and without its 0x prefix.
C9_CachedInitTargetsRegisteredAddress ==
    \A p \in Procs :
        LET r == proc[p]
            stored == r.file0.l1x_vm[r.cmd.artifact_id].deploy_address
        IN  (/\ r.cmd.kind = "install" /\ r.cmd.vm_type = "ebpf" /\ ~r.cmd.force
             /\ HasEntry(r.file0, r.cmd))
            => /\ LogIdx(r, "submitTransaction", "deploy") = {}
               /\ r.pc # "resolve" =>
                      /\ r.phase = "init"
                      /\ Quoted0x(r.target) = stored
                      /\ \A i \in 1..Len(r.target) : r.target[i] # "\""
               /\ r.request # NoRequest =>
                      r.request.transaction_type = Some(Transaction("init", r.target))

C9_Witness ==
    \E p \in Procs :
        LET r == proc[p]
        IN  /\ r.cmd.kind = "install" /\ r.cmd.vm_type = "ebpf" /\ ~r.cmd.force
            /\ HasEntry(r.file0, r.cmd)
            /\ r.file0.l1x_vm[r.cmd.artifact_id].deploy_address
                   = <<"\"", "0", "x", "a", "1", "\"">>
            /\ LogIdx(r, "submitTransaction", "init") # {}
            /\ r.request.transaction_type.v.target = <<"a", "1">>

\* C10: the address a write puts in the registry is, for ebpf deploy and
\* init, the contract_address of the submit response, and for evm deploy the
\* address of the first event, whatever the other of the two holds.
C10_AddressSourceByVmType ==
    [][\A p \in Procs :
          LET r == proc[p]
              a == r.cmd.artifact_id
          IN  (r.pc = "update_write" /\ proc'[p].pc # "update_write")
              => /\ (r.cmd.vm_type = "ebpf" /\ r.phase = "deploy"
                        /\ r.response.contract_address.some)
                     => file'.l1x_vm[a].deploy_address
                            = Quoted0x(r.response.contract_address.v)
                 /\ (r.cmd.vm_type = "ebpf" /\ r.phase = "init"
                        /\ r.response.contract_address.some)
                     => file'.l1x_vm[a].instance[r.cmd.contract_id].inst_address
                            = Quoted0x(r.response.contract_address.v)
                 /\ (r.cmd.vm_type = "evm" /\ r.events # <<>>
                        /\ r.events[1].address.some)
                     => file'.l1x_evm[a].deploy_address
                            = Quoted0x(Bare(r.events[1].address.v))]_vars

C10_Witness ==
    \E p \in Procs :
        LET r == proc[p]
        IN  /\ r.cmd.vm_type = "evm" /\ r.pc = "done" /\ r.outcome = "Ok"
            /\ r.response.contract_address = Some(<<"0", "x", "b", "2">>)
            /\ r.events # <<>>
            /\ r.events[1].address = Some(<<"a", "1">>)
            /\ file.l1x_evm[r.cmd.artifact_id].deploy_address
                   = <<"\"", "0", "x", "a", "1", "\"">>

\* the run's last poll gave no address: no events, or (evm install) a first
\* event without the field "address"
PolledNoAddress(r) ==
    /\ LogIdx(r, "getEvents", r.phase) # {}
    /\ r.err # "events"
    /\ \/ r.events = <<>>
       \/ /\ r.cmd.kind = "install" /\ r.cmd.vm_type = "evm"
          /\ r.events[1].valid /\ ~r.events[1].address.some

\* C11 (as claimed): a run whose poll gave no address ends neither as a
\* success (Ok, or a printed status 0) nor as an RPC failure.
C11_NoAddressIsSoftFailure ==
    \A p \in Procs :
        LET r == proc[p]
        IN  (r.pc = "done" /\ PolledNoAddress(r))
            => /\ r.outcome # "Ok"
               /\ ~(r.status_out.printed /\ r.status_out.status = 0)
               /\ r.err \notin {"nonce", "submit", "parse", "events"}

\* C12 (as claimed): an ebpf install starts its init, and ends Ok, only on a
\* deploy address that is not empty; after a deploy whose response has no
\* contract_address nothing of the init flow is issued.
C12_InitOnlyOnResolvedAddress ==
    \A p \in Procs :
        LET r == proc[p]
        IN  (r.cmd.kind = "install" /\ r.cmd.vm_type = "ebpf")
            => /\ LogIdx(r, "getNonce", "init") # {} => r.target # <<>>
               /\ LogIdx(r, "submitTransaction", "init") # {} => r.target # <<>>
               /\ (r.pc = "done" /\ r.outcome = "Ok") => r.target # <<>>

\* the entry an update makes is in the file
Applied(f, u) ==
    /\ f.st = "ok"
    /\ CASE u.type = "L1XEBPF_DEPLOY" ->
                /\ u.artifact_id \in DOMAIN f.l1x_vm
                /\ f.l1x_vm[u.artifact_id].deploy_hash = u.response_hash
         [] u.type = "L1XEVM_DEPLOY" ->
                /\ u.artifact_id \in DOMAIN f.l1x_evm
                /\ f.l1x_evm[u.artifact_id].deploy_hash = u.response_hash
         [] u.type = "L1XEBPF_INIT" ->
                /\ u.artifact_id \in DOMAIN f.l1x_vm
                /\ u.contract_id \in DOMAIN f.l1x_vm[u.artifact_id].instance
                /\ f.l1x_vm[u.artifact_id].instance[u.contract_id].inst_hash
                       = u.response_hash

\* C13: with two invocations, a write puts on disk the registry as its writer
\* read it plus the writer's own update, whatever the other invocation wrote
\* since that read: the later writer wins and the other update can be lost.
C13_LastWriterWins ==
    [][\A p \in RaceProcs :
          (proc[p].pc = "update_write" /\ proc'[p].pc # "update_write")
          => /\ file' = FileOf(proc[p].config)
             /\ Applied(file', proc[p].update_type)
             /\ proc'[p].outcome = "Ok"]_vars

\* both invocations read before either wrote, both ended Ok, and the file
\* has only the later writer's artifact
C13_Witness ==
    LET r1 == proc[1]
        r2 == proc[2]
    IN  /\ r1.pc = "done" /\ r1.outcome = "Ok"
        /\ r2.pc = "done" /\ r2.outcome = "Ok"
        /\ r1.update_type.type = "L1XEBPF_DEPLOY"
        /\ r2.update_type.type = "L1XEBPF_DEPLOY"
        /\ r1.update_type.artifact_id # r2.update_type.artifact_id
        /\ r1.file0 = r2.file0
        /\ Applied(file, r2.update_type)
        /\ r1.update_type.artifact_id \notin DOMAIN file.l1x_vm

\* the lookup with the key an update was made under
GetSameKey(f, u) ==
    CASE u.type = "L1XEBPF_DEPLOY" ->
            get_toolkit_ebpf_contract_address_for(f, u.artifact_id, None)
      [] u.type = "L1XEBPF_INIT" ->
            get_toolkit_ebpf_contract_address_for(f, u.artifact_id, Some(u.contract_id))
      [] u.type = "L1XEVM_DEPLOY" ->
            get_toolkit_evm_contract_address_for(f, u.artifact_id, None)

\* C14 (as claimed): after an update that succeeded, the lookup with the same
\* key returns exactly the address the update was given.
C14_GetReturnsExactlyGiven ==
    reg_call.result = "ok"
    => GetSameKey(file, reg_call.update_type)
           = Ok(reg_call.update_type.response_address)

\* C14 (amended): after an update that succeeded, the lookup with the same
\* key returns the address the update was given, exactly for the two ebpf
\* updates and without its 0x prefix for the evm update.
C14_GetReturnsGivenUpToPrefix ==
    reg_call.result = "ok"
    => LET u == reg_call.update_type
       IN  GetSameKey(file, u)
               = Ok(IF u.type = "L1XEVM_DEPLOY"
                    THEN Bare(u.response_address)
                    ELSE u.response_address)

C14_Witness ==
    /\ reg_call.result = "ok"
    /\ reg_call.update_type.type = "L1XEVM_DEPLOY"
    /\ reg_call.update_type.response_address = <<"0", "x", "b", "2">>
    /\ reg_call.before.st = "ok"
    /\ reg_call.update_type.artifact_id \in DOMAIN reg_call.before.l1x_evm
    /\ GetSameKey(file, reg_call.update_type) = Ok(<<"b", "2">>)

\* C15 (as claimed): a read-only call answered with a status other than 0
\* (and result bytes) prints a status other than 0 with the message
\* "Invalid response", never status 0 with the bytes.
C15_NonZeroStatusGivesSentinel ==
    \A p \in Procs :
        LET r == proc[p]
        IN  (/\ r.cmd.call_type = "ronly" /\ r.pc = "done"
             /\ r.ronly.some /\ r.ronly.v.result_ok /\ r.ronly.v.status # 0)
            => /\ r.status_out.printed
               /\ r.status_out.status # 0
               /\ r.status_out.message = <<"Invalid response">>

\* C16: a read-only call run fetches no nonce, builds and signs no request,
\* submits nothing and polls nothing; its only RPC is one
\* l1x_smartContractReadOnlyCall, made once the call is encoded; and the
\* registry file stays what it was.
C16_ReadOnlyCallNoTransaction ==
    \A p \in Procs :
        LET r == proc[p]
        IN  r.cmd.call_type = "ronly"
            => /\ \A i \in 1..Len(r.log) : r.log[i].op = "readOnlyCall"
               /\ Len(r.log) <= 1
               /\ r.nonce = -1 /\ r.request = NoRequest /\ r.response = NoResponse
               /\ (r.pc = "done" /\ (r.outcome = "Ok" \/ r.err \in {"post", "json"}))
                      => Len(r.log) = 1
               /\ file = r.file0

C16_Witness ==
    \E p \in Procs :
        LET r == proc[p]
        IN  /\ r.cmd.call_type = "ronly" /\ r.pc = "done" /\ r.outcome = "Ok"
            /\ r.file0.st = "ok" /\ file = r.file0
            /\ chain_nonce > 0
            /\ r.log = <<[op |-> "readOnlyCall", phase |-> "call"]>>
            /\ r.status_out.printed /\ r.status_out.message = <<"a", "1">>

\* the positions of a run's log that belong to a phase
PhaseEntries(r, phase) == {i \in 1..Len(r.log) : r.log[i].phase = phase}

\* C17: an ebpf install is in its init step only after the deploy step is
\* complete, which is either a cached address (no deploy entry in the log) or
\* a deployment submitted, polled and written to the registry before anything
\* of the init; and a run that fails in its deploy step has issued nothing of
\* the init and has left the registry file as it was.
C17_InitOnlyAfterDeploy ==
    \A p \in Procs :
        LET r == proc[p]
        IN  (r.cmd.kind = "install" /\ r.cmd.vm_type = "ebpf")
            => /\ (r.phase = "init" \/ PhaseEntries(r, "init") # {})
                  => \/ /\ PhaseEntries(r, "deploy") = {}
                        /\ ~r.cmd.force /\ HasEntry(r.file0, r.cmd)
                     \/ \E k \in LogIdx(r, "write", "deploy") :
                           /\ LogIs(r, k - 4, "submitTransaction", "deploy")
                           /\ LogIs(r, k - 2, "getEvents", "deploy")
                           /\ \A i \in PhaseEntries(r, "init") : i > k
                           /\ HasEntry(file, r.cmd)
               /\ (r.pc = "done" /\ r.outcome = "Failed" /\ r.phase = "deploy")
                  => /\ PhaseEntries(r, "init") = {}
                     /\ LogIdx(r, "write", "deploy") = {}
                     /\ file = r.file0

C17_Witness ==
    \E p \in Procs :
        LET r == proc[p]
        IN  /\ r.cmd.kind = "install" /\ r.cmd.vm_type = "ebpf" /\ r.cmd.force
            /\ LogIdx(r, "write", "deploy") = {6}
            /\ LogIdx(r, "submitTransaction", "init") = {8}
            /\ r.pc = "done" /\ r.outcome = "Ok"
            /\ r.cmd.contract_id
                   \in DOMAIN file.l1x_vm[r.cmd.artifact_id].instance

\* the RPC whose failure each error of a run stands for
RpcOfErr(err) ==
    CASE err = "nonce" -> "getNonce"
      [] err \in {"submit", "parse"} -> "submitTransaction"
      [] err = "events" -> "getEvents"
      [] err = "post" -> "readOnlyCall"
      [] OTHER -> "none"

\* C18: in a run each RPC is issued at most once for each transaction (at
\* most one submitTransaction, two in an ebpf install: deploy then init), and
\* a run whose RPC failed has ended with that call as its last.
C18_NoRpcRetried ==
    \A p \in Procs :
        LET r == proc[p]
        IN  /\ \A op \in {"getNonce", "submitTransaction", "getEvents", "readOnlyCall"} :
                   \A phase \in {"deploy", "init", "call"} :
                       Cardinality(LogIdx(r, op, phase)) <= 1
            /\ Cardinality(LogOps(r, "submitTransaction"))
                   <= (IF r.cmd.kind = "install" /\ r.cmd.vm_type = "ebpf" THEN 2 ELSE 1)
            /\ RpcOfErr(r.err) # "none"
                   => /\ r.pc = "done" /\ r.outcome = "Failed"
                      /\ r.log # <<>>
                      /\ r.log[Len(r.log)].op = RpcOfErr(r.err)

C18_Witness ==
    \E p \in Procs :
        LET r == proc[p]
        IN  /\ r.cmd.kind = "install" /\ r.cmd.vm_type = "ebpf"
            /\ r.err = "events" /\ r.phase = "init"
            /\ Cardinality(LogOps(r, "submitTransaction")) = 2
            /\ Cardinality(LogOps(r, "getNonce")) = 2
            /\ Cardinality(LogOps(r, "getEvents")) = 2
            /\ r.log[Len(r.log)].op = "getEvents"

\* C19: an install with --force goes to its deploy step whatever the registry
\* holds, submits nothing of an init before a deployment, and the registry
\* write of that deployment sets the artifact's deploy_hash to the new
\* submission's hash and its deploy_address to the new address (when the
\* submission has one), dropping what the entry held.
C19_ForceAlwaysDeploys ==
    [][\A p \in Procs :
          LET r == proc[p]
              n == proc'[p]
              a == r.cmd.artifact_id
              t == TableOf(file', r.cmd.vm_type)
          IN  (r.cmd.kind = "install" /\ r.cmd.force)
              => /\ r.pc = "resolve" => n.phase = "deploy"
                 /\ (n.cmd = r.cmd /\ PhaseEntries(n, "init") # {})
                        => LogIdx(n, "submitTransaction", "deploy") # {}
                 /\ (r.pc = "update_write" /\ r.phase = "deploy" /\ n.pc # "update_write")
                        => /\ a \in DOMAIN t
                           /\ t[a].deploy_hash = r.response.hash
                           /\ t[a].instance = EmptyMap
                           /\ (r.cmd.vm_type = "ebpf" /\ r.response.contract_address.some)
                                  => t[a].deploy_address
                                         = Quoted0x(r.response.contract_address.v)
                           /\ (r.cmd.vm_type = "evm" /\ r.events # <<>>
                                  /\ r.events[1].address.some)
                                  => t[a].deploy_address
                                         = Quoted0x(Bare(r.events[1].address.v))]_vars

C19_Witness ==
    \E p \in Procs :
        LET r == proc[p]
            a == r.cmd.artifact_id
        IN  /\ r.cmd.kind = "install" /\ r.cmd.force /\ r.cmd.vm_type = "evm"
            /\ HasEntry(r.file0, r.cmd)
            /\ r.pc = "done" /\ r.outcome = "Ok"
            /\ r.file0.l1x_evm[a].deploy_hash = 1
            /\ r.file0.l1x_evm[a].deploy_address = <<"\"", "0", "x", "a", "1", "\"">>
            /\ file.l1x_evm[a].deploy_hash = 2
            /\ file.l1x_evm[a].deploy_address = <<"\"", "0", "x", "b", "2", "\"">>

\* C20: for a hex string with or without 0x (bare, quoted, or quoted within
\* blanks) the first cleaning leaves hex digits only, and cleaning the result
\* again changes nothing.
C20_NormalizeIdempotent ==
    /\ norm.calls >= 1 => \A i \in 1..Len(norm.out) : norm.out[i] \in HexDigits
    /\ norm.calls = 2 => norm.out = norm.prev

C20_Witness ==
    /\ norm.fn = "clean_string"
    /\ norm.calls = 2
    /\ norm.input = <<" ", "\"", "0", "x", "a", "b", "\"", " ">>
    /\ norm.prev = <<"a", "b">>
    /\ norm.out = <<"a", "b">>

\* an address in normalized form: cleaning it changes nothing
Normalized(x) == clean_address_string(x) = x /\ clean_string(x) = x

\* C21 (as claimed): the address an init, a function call or a read-only
\* call is made on is in normalized form, on the cached path and after a
\* fresh deploy alike.
C21_RpcAddressNormalized ==
    \A p \in Procs :
        LET r == proc[p]
        IN  /\ r.phase = "init" => Normalized(r.target)
            /\ (r.phase = "call" /\ r.pc \notin {"call_encode", "ronly_encode"}
                   /\ r.err # "hex")
                  => Normalized(r.target)

\* hex digits only, no quote, no blank, no prefix
BareHex(x) == \A i \in 1..Len(x) : x[i] \in HexDigits

\* a persisted address of the documented form: quote, one 0x, hex digits, quote
IsQuoted0xHex(s) ==
    /\ Len(s) >= 4
    /\ SubSeq(s, 1, 3) = <<"\"", "0", "x">>
    /\ s[Len(s)] = "\""
    /\ BareHex(SubSeq(s, 4, Len(s) - 1))

\* C22 (as claimed): every deploy_address and inst_address in the registry
\* is a quote, exactly one 0x, hex digits, and a quote, whatever form the
\* address given to the upsert had.
C22_PersistedAsQuoted0x ==
    /\ \A id \in DOMAIN file.l1x_vm :
           /\ IsQuoted0xHex(file.l1x_vm[id].deploy_address)
           /\ \A c \in DOMAIN file.l1x_vm[id].instance :
                  IsQuoted0xHex(file.l1x_vm[id].instance[c].inst_address)
    /\ \A id \in DOMAIN file.l1x_evm :
           IsQuoted0xHex(file.l1x_evm[id].deploy_address)

\* C23: a run that fails on a hex encoding error (contract address or
\* function payload of a sub-txn or read-only call, artifact code of an evm
\* install) has made no RPC call and built no request, and the registry is
\* as it was when the run started; a call whose cleaned payload is not hex
\* never reaches the node.
C23_EncodingErrorBeforeChain ==
    \A p \in Procs :
        LET r == proc[p]
        IN  /\ r.err = "hex" =>
                   /\ r.pc = "done" /\ r.outcome = "Failed"
                   /\ r.log = <<>>
                   /\ r.request = NoRequest
                   /\ file = r.file0
            /\ (/\ r.phase = "call"
                /\ ~hex_parse_ok(clean_string(r.cmd.function_payload)))
               => r.log = <<>> /\ r.pc \in {"call_encode", "ronly_encode", "done"}

C23_Witness ==
    \E p \in Procs :
        LET r == proc[p]
        IN  /\ r.err = "hex" /\ r.phase = "call" /\ r.cmd.call_type = "sub-txn"
            /\ r.file0.st = "ok"
            /\ ~hex_parse_ok(clean_string(r.cmd.function_payload))

\* C24 (as claimed): an invocation that ended in an error, or that printed a
\* status object with a non-zero status, exits with a non-zero code, and the
\* code 0 is that of a run that did neither.
C24_FailedRunExitsNonZero ==
    \A p \in Procs :
        LET e == proc[p].exited
        IN  e.code # -1 =>
                (e.code = 0 <=> (e.outcome = "Ok" /\ ~(e.printed /\ e.status # 0)))

(***************************************************************************)
(* get_submit_txn_req on its own: a request is built from a transaction,   *)
(* a key, a fee limit and a nonce, and then built again from the same.     *)
(***************************************************************************)
SignTxns ==
    {NativeTokenTransfer(a, m) : a \in {A1, <<"a">>}, m \in {0, 12}}
    \cup {Transaction("deployment", <<>>), Transaction("init", A1),
          Transaction("function_call", A1)}
SignKeys == {<<"0", "1">>, <<"a", "b">>, <<"z", "z">>}
SignFees == {1, 100}
SignNonces == {0, 9, 10}

InitSign ==
    /\ file = MissingFile
    /\ chain_nonce = 0
    /\ proc = [p \in Procs |-> IdleProc]
    /\ reg_call = NoRegCall
    /\ norm = NoNorm
    /\ sign_call = NoSignCall
    /\ new_call = NoNewCall

\* a caller builds the request
GetSubmitTxnReq(txn, private_key, fee_limit, nonce) ==
    /\ sign_call' = [calls |-> 1, txn |-> txn, private_key |-> private_key,
                     fee_limit |-> fee_limit, nonce |-> nonce,
                     first |-> get_submit_txn_req(txn, private_key, fee_limit, nonce),
                     second |-> Err]
    /\ UNCHANGED <<file, chain_nonce, proc, reg_call, norm, new_call>>

\* the caller builds it once more from the same arguments
GetSubmitTxnReqAgain ==
    /\ sign_call.calls = 1
    /\ sign_call' = [sign_call EXCEPT
            !.calls = 2,
            !.second = get_submit_txn_req(sign_call.txn, sign_call.private_key,
                                          sign_call.fee_limit, sign_call.nonce)]
    /\ UNCHANGED <<file, chain_nonce, proc, reg_call, norm, new_call>>

NextSign ==
    \/ \E txn \in SignTxns, private_key \in SignKeys, fee_limit \in SignFees,
          nonce \in SignNonces : GetSubmitTxnReq(txn, private_key, fee_limit, nonce)
    \/ GetSubmitTxnReqAgain

SpecSign == InitSign /\ [][NextSign]_vars

C26_StrategyByTypeTag ==
    (sign_call.calls >= 1 /\ sign_call.first.ok) =>
        LET req == sign_call.first.v
            txn == sign_call.txn
            sig == req.signature
        IN  /\ IF txn.kind = "native_token_transfer"
               THEN /\ sig.alg = "ecdsa"
                    /\ sig.msg.hash = "sha256"
                    /\ sig.msg.of =
                           <<<<"nonce", sign_call.nonce>>,
                             <<"transaction_type",
                               <<txn.target, to_string(txn.amount)>>>>,
                             <<"fee_limit", sign_call.fee_limit>>>>
               ELSE /\ sig.alg = "rpc"
                    /\ sig.msg = [transaction_type |-> txn,
                                  fee_limit |-> sign_call.fee_limit,
                                  nonce |-> sign_call.nonce]
            /\ sig.key = <<"sk">> \o sign_call.private_key
            /\ req.nonce = to_string(sign_call.nonce)
            /\ req.fee_limit = to_string(sign_call.fee_limit)
            /\ req.transaction_type = Some(txn)

C26_Witness ==
    /\ sign_call.calls >= 1
    /\ sign_call.first.ok
    /\ sign_call.txn.kind = "function_call"
    /\ sign_call.first.v.signature.alg = "rpc"
    /\ sign_call.first.v.nonce = <<"1", "0">>
    /\ sign_call.first.v.fee_limit = <<"1", "0", "0">>

(***************************************************************************)
(* One invocation from its start to its end: every RPC call returns and    *)
(* every file operation completes, so the step the invocation is at is     *)
(* eventually taken.                                                       *)
(***************************************************************************)
RegisteredFile ==
    [st |-> "ok",
     l1x_vm |-> [a \in {"ft"} |->
         [deploy_hash |-> 1, deploy_address |-> format_quoted_0x(A1),
          instance |-> [c \in {"c1"} |->
              [inst_hash |-> 2, inst_address |-> format_quoted_0x(A1)]]]],
     l1x_evm |-> [a \in {"ft"} |->
         [deploy_hash |-> 1, deploy_address |-> format_quoted_0x(A1),
          instance |-> EmptyMap]]]

InitLive ==
    /\ file \in {MissingFile, CorruptFile, RegisteredFile}
    /\ chain_nonce = 0
    /\ proc = [p \in Procs |-> IdleProc]
    /\ reg_call = NoRegCall
    /\ norm = NoNorm
    /\ sign_call = NoSignCall
    /\ new_call = NoNewCall

NextLive ==
    \E p \in Procs :
        \/ \E cmd \in Commands : Start(p, cmd)
        \/ RunStep(p)

SpecLive ==
    InitLive /\ [][NextLive]_vars /\ \A p \in Procs : WF_vars(RunStep(p))

\* C27: every install, sub-txn and read-only run that has started reaches a
\* terminal outcome, and on the way waits at most once and polls at most
\* once for each transaction it submitted.
C27_EveryRunTerminates ==
    /\ \A p \in Procs : (proc[p].pc # "idle") ~> (proc[p].pc = "done")
    /\ [](\A p \in Procs : \A phase \in {"deploy", "init", "call"} :
              /\ Cardinality(LogIdx(proc[p], "sleep", phase)) <= 1
              /\ Cardinality(LogIdx(proc[p], "getEvents", phase)) <= 1)

C27_Witness ==
    \E p \in Procs :
        LET r == proc[p]
        IN  /\ r.pc = "done" /\ r.outcome = "Ok"
            /\ r.cmd.kind = "install" /\ r.cmd.vm_type = "ebpf"
            /\ Cardinality(LogOps(r, "sleep")) = 2
            /\ Cardinality(LogOps(r, "getEvents")) = 2

(***************************************************************************)
(* l1x-forge new (cmd/new.rs): new_contract_project on a file system that  *)
(* holds a base directory and, below it, the directory named after the     *)
(* contract.                                                               *)
(***************************************************************************)
MaxNameLen == 3

\* characters of a contract name: a letter, an underscore, a hyphen, a digit
NameChars == {"m", "_", "-", "1"}
is_alphabetic(c) == c \in {"m"}
is_alphanumeric(c) == c \in {"m", "1"}

RECURSIVE NamesOfLen(_)
NamesOfLen(n) ==
    IF n = 0 THEN {<<>>}
    ELSE {Append(h, c) : h \in NamesOfLen(n - 1), c \in NameChars}
Names == UNION {NamesOfLen(n) : n \in 0..MaxNameLen}

\* L1XContractTemplateHub::default
TemplateHub == {"l1x-cross-chain-swap", "l1x-ft", "l1x-nft"}
TemplateNames == {None, Some("l1x-nft"), Some("l1x-erc20")}
BasePaths == {None, Some(<<".">>)}

\* an anyhow error: its message and the text that is formatted into it
Bail(msg, arg) == [ok |-> FALSE, v |-> [msg |-> msg, arg |-> arg]]

\* L1XContractTemplateHub::get_template
get_template(template_name) ==
    IF template_name \in TemplateHub THEN Ok([msg |-> "", arg |-> <<template_name>>])
    ELSE Bail("Template not found: {}", <<template_name>>)

\* the file system before a call: whether the base directory holds a
\* Cargo.toml, what is at <base>/<name>, and which system calls will succeed
NewFileSystems ==
    [base_cargo_toml : BOOLEAN, out_dir : {"absent", "dir", "package"},
     cwd_ok : BOOLEAN, git : {"ok", "spawn_failed", "clone_failed"}]

\* A plausible slip: a name without a first character passes the second check.
name_error_AllowsEmpty(name) ==
    IF ~(\A i \in 1..Len(name) : is_alphanumeric(name[i]) \/ name[i] = "_")
    THEN Some("Contract names can only contain alphanumeric characters and underscores")
    ELSE IF ~(IF name = <<>> THEN TRUE ELSE is_alphabetic(name[1]))
    THEN Some("Contract names must begin with an alphabetic character")
    ELSE None

\* A plausible slip: the two checks of the name are made in the other order.
name_error_FirstCharFirst(name) ==
    IF ~(IF name = <<>> THEN FALSE ELSE is_alphabetic(name[1]))
    THEN Some("Contract names must begin with an alphabetic character")
    ELSE IF ~(\A i \in 1..Len(name) : is_alphanumeric(name[i]) \/ name[i] = "_")
    THEN Some("Contract names can only contain alphanumeric characters and underscores")
    ELSE None

\* new_contract_project: the two checks of the name
name_error(name) ==
    IF ~(\A i \in 1..Len(name) : is_alphanumeric(name[i]) \/ name[i] = "_")
    THEN Some("Contract names can only contain alphanumeric characters and underscores")
    ELSE IF ~(IF name = <<>> THEN FALSE ELSE is_alphabetic(name[1]))
    THEN Some("Contract names must begin with an alphabetic character")
    ELSE None

\* A plausible slip: the Cargo.toml looked for is the one of the base path.
package_exists_InBase(fs) == fs.base_cargo_toml

\* new_contract_project: out_dir.join("Cargo.toml").exists()
package_exists(fs) == fs.out_dir = "package"

\* L1XContractTemplateHub::copy_template: git clone, remove .git, git init
copy_template(git) ==
    CASE git = "spawn_failed" ->
            Bail("Failed to clone template repository: {}", <<"io">>)
      [] git = "clone_failed" -> Bail("io", <<"remove_dir_all">>)
      [] OTHER -> Ok([msg |-> "", arg |-> <<>>])

\* new_contract_project: the result, and whether a directory was created and
\* a clone was started
new_contract_project(name, template_name, proj_base_path, fs) ==
    LET untouched == [created |-> FALSE, cloned |-> FALSE, out_dir |-> fs.out_dir]
        project_template_name == unwrap_or(template_name, "l1x-ft")
        project_template == get_template(project_template_name)
        bad_name == name_error(name)
    IN  IF ~project_template.ok
        THEN [result |-> project_template] @@ untouched
        ELSE IF bad_name.some
        THEN [result |-> Bail(bad_name.v, <<>>)] @@ untouched
        ELSE IF ~fs.cwd_ok
        THEN [result |-> Bail("io", <<"current_dir">>)] @@ untouched
        ELSE IF package_exists(fs)
        THEN [result |-> Bail("A Cargo package already exists in {}", name)]
             @@ untouched
        ELSE [result |-> copy_template(fs.git),
              created |-> fs.out_dir = "absent",
              cloned |-> TRUE,
              out_dir |-> IF fs.git = "ok" THEN "package" ELSE "dir"]

InitNew ==
    /\ file = MissingFile
    /\ chain_nonce = 0
    /\ proc = [p \in Procs |-> IdleProc]
    /\ reg_call = NoRegCall
    /\ norm = NoNorm
    /\ sign_call = NoSignCall
    /\ new_call \in {[st |-> "ready", fs |-> fs] : fs \in NewFileSystems}

\* NewCommand::exec
NewContractProject(name, template_name, proj_base_path) ==
    /\ new_call.st = "ready"
    /\ new_call' =
           [st |-> "done", fs |-> new_call.fs, name |-> name,
            template_name |-> template_name, proj_base_path |-> proj_base_path,
            out |-> new_contract_project(name, template_name, proj_base_path,
                                         new_call.fs)]
    /\ UNCHANGED <<file, chain_nonce, proc, reg_call, norm, sign_call>>

NextNew ==
    \E name \in Names, template_name \in TemplateNames, proj_base_path \in BasePaths :
        NewContractProject(name, template_name, proj_base_path)

SpecNew == InitNew /\ [][NextNew]_vars

HasHyphen(name) == \E i \in 1..Len(name) : name[i] = "-"
TemplateFound(template_name) == unwrap_or(template_name, "l1x-ft") \in TemplateHub

ValidCall ==
    /\ new_call.st = "done"
    /\ TemplateFound(new_call.template_name)
    /\ name_error(new_call.name) = None
    /\ new_call.fs.cwd_ok

SameButFor(before, after, artifact_id) ==
    /\ (DOMAIN before) \ {artifact_id} = (DOMAIN after) \ {artifact_id}
    /\ \A id \in (DOMAIN before) \ {artifact_id} : after[id] = before[id]

\* C30: with a single writer, an upsert for an artifact leaves the entry of
\* every other artifact as it was, in both tables; an ebpf-deploy or
\* ebpf-init leaves the whole of l1x_evm as it was, and an evm-deploy the
\* whole of l1x_vm.
C30_UpsertFrame ==
    reg_call.result = "ok" =>
        LET u == reg_call.update_type
            before == reg_call.before
        IN  /\ SameButFor(before.l1x_vm, file.l1x_vm, u.artifact_id)
            /\ SameButFor(before.l1x_evm, file.l1x_evm, u.artifact_id)
            /\ u.type \in {"L1XEBPF_DEPLOY", "L1XEBPF_INIT"} =>
                   file.l1x_evm = before.l1x_evm
            /\ u.type = "L1XEVM_DEPLOY" => file.l1x_vm = before.l1x_vm
            /\ u.type = "L1XEBPF_INIT" =>
                   /\ file.l1x_vm[u.artifact_id].deploy_address =
                          before.l1x_vm[u.artifact_id].deploy_address
                   /\ SameButFor(before.l1x_vm[u.artifact_id].instance,
                                 file.l1x_vm[u.artifact_id].instance,
                                 u.contract_id)

C30_Witness ==
    /\ reg_call.result = "ok"
    /\ reg_call.update_type.type = "L1XEBPF_DEPLOY"
    /\ reg_call.update_type.artifact_id = "ft"
    /\ reg_call.before.st = "ok"
    /\ "nft" \in DOMAIN reg_call.before.l1x_vm
    /\ "nft" \in DOMAIN reg_call.before.l1x_evm
    /\ "nft" \in DOMAIN file.l1x_vm
    /\ "ft" \in DOMAIN file.l1x_vm

\* the registry lookup a sub-txn or read-only run makes for its target
TargetStatus(f, cmd) ==
    IF cmd.vm_type = "ebpf"
    THEN get_toolkit_ebpf_contract_address_for(f, cmd.artifact_id, Some(cmd.contract_id))
    ELSE get_toolkit_evm_contract_address_for(f, cmd.artifact_id, None)

\* C31: a sub-txn or read-only run whose registry lookup finds no target
\* address fails with the unknown-contract-address error without any RPC
\* call and without a request being built, and the registry is as it was.
C31_UnknownAddressBeforeChain ==
    \A p \in Procs :
        LET r == proc[p]
        IN  /\ (r.cmd.kind = "sub_txn" /\ ~TargetStatus(r.file0, r.cmd).ok) =>
                   /\ r.pc \in {"lookup", "done"}
                   /\ r.log = <<>>
                   /\ r.request = NoRequest
                   /\ file = r.file0
                   /\ r.pc = "done" => (r.outcome = "Failed" /\ r.err = "notfound")
            /\ r.err = "notfound" =>
                   (r.cmd.kind = "sub_txn" /\ ~TargetStatus(r.file0, r.cmd).ok)

C31_Witness ==
    \E p \in Procs :
        LET r == proc[p]
        IN  /\ r.pc = "done" /\ r.err = "notfound"
            /\ r.cmd.call_type = "ronly"
            /\ r.file0.st = "ok"
            /\ r.cmd.artifact_id \in DOMAIN r.file0.l1x_vm

\* C32: a sub-txn or read-only call with vm-type ebpf targets the instance
\* address registered under (artifact_id, contract_id) in l1x_vm and finds
\* nothing when that instance is missing, deploy entry or not; with vm-type
\* evm it targets the artifact's deploy address in l1x_evm whatever the
\* contract_id; neither looks into the other table.
C32_TargetResolution ==
    \A p \in Procs :
        LET r == proc[p]
            f == r.file0
            a == r.cmd.artifact_id
            c == r.cmd.contract_id
            registered ==
                /\ f.st = "ok"
                /\ IF r.cmd.vm_type = "ebpf"
                   THEN a \in DOMAIN f.l1x_vm /\ c \in DOMAIN f.l1x_vm[a].instance
                   ELSE a \in DOMAIN f.l1x_evm
            address ==
                IF r.cmd.vm_type = "ebpf"
                THEN f.l1x_vm[a].instance[c].inst_address
                ELSE f.l1x_evm[a].deploy_address
        IN  (r.cmd.kind = "sub_txn" /\ r.pc # "lookup") =>
                /\ (r.err = "notfound") <=> ~registered
                /\ r.pc \in {"call_encode", "ronly_encode"} =>
                       /\ registered
                       /\ r.target = clean_address_string(address)

C32_Witness ==
    \E p \in Procs :
        LET r == proc[p]
            f == r.file0
            a == r.cmd.artifact_id
        IN  /\ r.cmd.kind = "sub_txn" /\ r.cmd.vm_type = "ebpf"
            /\ r.pc = "call_encode"
            /\ f.st = "ok"
            /\ a \in DOMAIN f.l1x_vm
            /\ r.cmd.contract_id \in DOMAIN f.l1x_vm[a].instance
            /\ f.l1x_vm[a].instance[r.cmd.contract_id].inst_address
                   # f.l1x_vm[a].deploy_address

\* C33: an ebpf-deploy upsert for an artifact replaces its whole entry: the
\* entry holds the new hash and address and an empty instance map, whatever
\* instances were recorded for the artifact before.
C33_DeployReplacesEntry ==
    (reg_call.result = "ok" /\ reg_call.update_type.type = "L1XEBPF_DEPLOY") =>
        LET u == reg_call.update_type
        IN  /\ u.artifact_id \in DOMAIN file.l1x_vm
            /\ file.l1x_vm[u.artifact_id].instance = EmptyMap
            /\ file.l1x_vm[u.artifact_id].deploy_hash = u.response_hash
            /\ file.l1x_vm[u.artifact_id].deploy_address =
                   <<"\"", "0", "x">> \o u.response_address \o <<"\"">>

C33_Witness ==
    /\ reg_call.result = "ok"
    /\ reg_call.update_type.type = "L1XEBPF_DEPLOY"
    /\ reg_call.update_type.artifact_id \in DOMAIN reg_call.before.l1x_vm
    /\ "c1" \in DOMAIN
           reg_call.before.l1x_vm[reg_call.update_type.artifact_id].instance
    /\ file.l1x_vm[reg_call.update_type.artifact_id].instance = EmptyMap

\* C34: an ebpf-init upsert for (artifact_id, contract_id) changes only that
\* instance of the artifact: deploy_hash, deploy_address and every other
\* instance stay, and the instance holds the new hash and address, whether
\* or not it existed before.
C34_InitChangesOnlyItsInstance ==
    (reg_call.result = "ok" /\ reg_call.update_type.type = "L1XEBPF_INIT") =>
        LET u == reg_call.update_type
            old == reg_call.before.l1x_vm[u.artifact_id]
            new == file.l1x_vm[u.artifact_id]
        IN  /\ new.deploy_hash = old.deploy_hash
            /\ new.deploy_address = old.deploy_address
            /\ DOMAIN new.instance = (DOMAIN old.instance) \cup {u.contract_id}
            /\ \A c \in (DOMAIN old.instance) \ {u.contract_id} :
                   new.instance[c] = old.instance[c]
            /\ new.instance[u.contract_id].inst_hash = u.response_hash
            /\ new.instance[u.contract_id].inst_address =
                   <<"\"", "0", "x">> \o u.response_address \o <<"\"">>

C34_Witness ==
    /\ reg_call.result = "ok"
    /\ reg_call.update_type.type = "L1XEBPF_INIT"
    /\ reg_call.update_type.contract_id = "c1"
    /\ LET old == reg_call.before.l1x_vm[reg_call.update_type.artifact_id]
       IN  /\ "c1" \in DOMAIN old.instance
           /\ old.instance["c1"].inst_hash # reg_call.update_type.response_hash
           /\ old.instance["c1"].inst_address #
                  file.l1x_vm[reg_call.update_type.artifact_id].instance["c1"].inst_address

\* the registry lookup of an install without --force finds no deploy address:
\* the file is missing or is not a registry, or the artifact is not in it
LookupFails(f, cmd) == f.st # "ok" \/ cmd.artifact_id \notin DOMAIN TableOf(f, cmd.vm_type)

\* C35: an install without --force whose registry lookup fails, for whatever
\* reason, goes on as if the artifact had never been deployed: it enters the
\* deploy, its first RPC call belongs to the deployment, it reaches init or
\* success only past a submitted deployment, and it does not end on a
\* registry error before that submission.
C35_LookupFailureMeansDeploy ==
    \A p \in Procs :
        LET r == proc[p]
            submitted == LogIdx(r, "submitTransaction", "deploy") # {}
        IN  (/\ r.cmd.kind = "install" /\ ~r.cmd.force
             /\ LookupFails(r.file0, r.cmd)
             /\ r.pc # "resolve")
            => /\ r.phase \in {"deploy", "init"}
               /\ r.log # <<>> => r.log[1] = [op |-> "getNonce", phase |-> "deploy"]
               /\ r.phase = "init" => submitted
               /\ (r.pc = "done" /\ r.outcome = "Ok") => submitted
               /\ r.err = "registry" => submitted
               /\ (r.pc = "done" /\ r.log = <<>>) => r.err = "hex"

C35_Witness ==
    \E p \in Procs :
        LET r == proc[p]
        IN  /\ r.cmd.kind = "install" /\ r.cmd.vm_type = "ebpf" /\ ~r.cmd.force
            /\ r.file0.st = "corrupt"
            /\ LogIdx(r, "submitTransaction", "deploy") # {}
            /\ r.pc = "sleep"

\* C36: an ebpf install whose deploy was persisted keeps the artifact's
\* deploy entry, with no instance, while and after its init fails; a later
\* install without --force that finds the entry without an instance for its
\* contract_id submits no deployment, targets the recorded deploy address
\* with its init, and on success has added that instance and left the
\* deploy hash and address as they were.
C36_PartialInstallRecovery ==
    \A p \in Procs :
        LET r == proc[p]
            a == r.cmd.artifact_id
            c == r.cmd.contract_id
            ebpf_install == r.cmd.kind = "install" /\ r.cmd.vm_type = "ebpf"
        IN  /\ (/\ ebpf_install /\ r.phase = "init"
                /\ LogIdx(r, "write", "deploy") # {}
                /\ LogIdx(r, "write", "init") = {})
               => /\ file.st = "ok"
                  /\ a \in DOMAIN file.l1x_vm
                  /\ file.l1x_vm[a].instance = EmptyMap
                  /\ clean_address_string(file.l1x_vm[a].deploy_address) = r.target
            /\ (/\ ebpf_install /\ ~r.cmd.force
                /\ r.file0.st = "ok"
                /\ a \in DOMAIN r.file0.l1x_vm
                /\ c \notin DOMAIN r.file0.l1x_vm[a].instance)
               => /\ LogIdx(r, "submitTransaction", "deploy") = {}
                  /\ r.pc # "resolve" =>
                         /\ r.phase = "init"
                         /\ r.target =
                                clean_address_string(r.file0.l1x_vm[a].deploy_address)
                  /\ (r.pc = "done" /\ r.outcome = "Ok") =>
                         /\ LogIdx(r, "submitTransaction", "init") # {}
                         /\ file.l1x_vm[a].deploy_hash = r.file0.l1x_vm[a].deploy_hash
                         /\ file.l1x_vm[a].deploy_address =
                                r.file0.l1x_vm[a].deploy_address
                         /\ DOMAIN file.l1x_vm[a].instance =
                                (DOMAIN r.file0.l1x_vm[a].instance) \cup {c}
                  /\ (r.pc = "done" /\ r.outcome # "Ok") => file = r.file0

C36_Witness ==
    \E p \in Procs :
        LET r == proc[p]
            a == r.cmd.artifact_id
        IN  /\ r.cmd.kind = "install" /\ r.cmd.vm_type = "ebpf" /\ ~r.cmd.force
            /\ r.file0.st = "ok"
            /\ a \in DOMAIN r.file0.l1x_vm
            /\ r.file0.l1x_vm[a].instance = EmptyMap
            /\ r.pc = "done" /\ r.outcome = "Ok"
            /\ r.cmd.contract_id \in DOMAIN file.l1x_vm[a].instance
            /\ Cardinality(LogOps(r, "submitTransaction")) = 1

\* C37 (as claimed): in an evm deploy whose first event is JSON, the events
\* after the first change neither the address written nor the outcome: the
\* run does not fail on them, and the update it makes carries the address of
\* the first event.
C37_OnlyFirstEventMatters ==
    \A p \in Procs :
        LET r == proc[p]
        IN  (/\ r.cmd.kind = "install" /\ r.cmd.vm_type = "evm"
             /\ r.events # <<>>
             /\ r.events[1].valid)
            => /\ r.err # "event_json"
               /\ r.update_type # NoUpdate =>
                      r.update_type.response_address =
                          json_to_string(r.events[1].address)

(***************************************************************************)
(* Two invocations for the same owner account at once, each up to the      *)
(* submission of its first transaction.                                    *)
(***************************************************************************)
NonceRaceCmds ==
    {c \in Commands :
        /\ c.artifact_id = "ft" /\ c.contract_id = "c1"
        /\ c.kind = "install" => c.force
        /\ c.kind = "sub_txn" =>
               (c.call_type = "sub-txn" /\ c.vm_type = "ebpf"
                   /\ c.function_payload = OX \o <<"0", "1">>)}

InitNonceRace ==
    /\ file = RegisteredFile
    /\ chain_nonce = 0
    /\ proc = [p \in RaceProcs |-> IdleProc]
    /\ reg_call = NoRegCall
    /\ norm = NoNorm
    /\ sign_call = NoSignCall
    /\ new_call = NoNewCall

NextNonceRace ==
    \E p \in RaceProcs :
        \/ \E cmd \in NonceRaceCmds : Start(p, cmd)
        \/ ResolveEbpf(p)
        \/ ResolveEvm(p)
        \/ \E code_ok \in BOOLEAN : EvmEncode(p, code_ok)
        \/ Lookup(p)
        \/ CallEncode(p)
        \/ GetNonce(p)
        \/ GetNonceFail(p)
        \/ BuildRequest(p)
        \/ BuildRequestFail(p)
        \/ \E contract_address \in RespAddrs : SubmitTransaction(p, contract_address)
        \/ \E stage \in {"submit", "parse"} : SubmitTransactionFail(p, stage)

SpecNonceRace == InitNonceRace /\ [][NextNonceRace]_vars

\* what a flow adds to the nonce it fetched
NonceStep(r) == IF r.phase = "call" THEN 2 ELSE 1

\* C38: nothing in the client serializes the allocation of nonces: two
\* invocations that have both fetched a nonce and not yet submitted hold the
\* same one, the chain's, and each puts into its request the nonce it fetched
\* plus its flow's step, whatever the other one does.
C38_NoNonceSerialization ==
    /\ \A p \in RaceProcs :
           proc[p].request # NoRequest =>
               proc[p].request.nonce =
                   to_string(proc[p].nonce + NonceStep(proc[p]))
    /\ \A p \in RaceProcs : \A q \in RaceProcs \ {p} :
           (/\ proc[p].pc \in {"build", "submit"}
            /\ proc[q].pc \in {"build", "submit"})
           => /\ proc[p].nonce = chain_nonce
              /\ proc[q].nonce = chain_nonce

C38_Witness ==
    /\ \A p \in RaceProcs :
           /\ proc[p].cmd.kind = "install"
           /\ proc[p].pc = "sleep"
           /\ LogIdx(proc[p], "submitTransaction", "deploy") # {}
           /\ proc[p].request.nonce = to_string(proc[p].nonce + 1)
    /\ proc[1].request.nonce = proc[2].request.nonce
    /\ proc[1].nonce = proc[2].nonce

\* a name of letters, digits and underscores that starts with a letter
AcceptableName(name) ==
    /\ name # <<>>
    /\ name[1] = "m"
    /\ \A i \in 1..Len(name) : name[i] \in {"m", "1", "_"}

NameMessages ==
    {"Contract names can only contain alphanumeric characters and underscores",
     "Contract names must begin with an alphabetic character"}

\* C39: a call is refused for its name exactly when the name is not made of
\* alphanumeric characters and underscores with a letter first, the empty
\* name included; a call with such a name fails, creates no directory and
\* clones no template, and a call with an acceptable name succeeds when the
\* template is known and the file system lets it.
C39_NameAcceptedIff ==
    new_call.st = "done" =>
        LET out == new_call.out
            name_refused == ~out.result.ok /\ out.result.v.msg \in NameMessages
        IN  /\ TemplateFound(new_call.template_name) =>
                   (name_refused <=> ~AcceptableName(new_call.name))
            /\ ~AcceptableName(new_call.name) =>
                   /\ ~out.result.ok
                   /\ ~out.created /\ ~out.cloned
                   /\ out.out_dir = new_call.fs.out_dir
            /\ (/\ AcceptableName(new_call.name)
                /\ TemplateFound(new_call.template_name)
                /\ new_call.fs.cwd_ok
                /\ new_call.fs.out_dir # "package"
                /\ new_call.fs.git = "ok")
               => out.result.ok /\ out.cloned

C39_Witness ==
    /\ new_call.st = "done"
    /\ new_call.name = <<>>
    /\ new_call.template_name = Some("l1x-nft")
    /\ new_call.fs.out_dir = "absent"
    /\ ~new_call.out.result.ok
    /\ new_call.out.result.v.msg =
           "Contract names must begin with an alphabetic character"
    /\ ~new_call.out.created

====
